---- MODULE Spec2Model ----
(***************************************************************************)
(* The scheduling run of virtual_assistant.py: the energy profile and the  *)
(* calendar events are fetched, the occupied intervals are merged, the     *)
(* tasks are scored and sorted, candidate timeslots are computed per task, *)
(* schedule_tasks places the tasks greedily, merge_scheduled_tasks merges  *)
(* consecutive parts and manage_calendar_events writes them to the         *)
(* calendar.                                                               *)
(*                                                                         *)
(* Times are minutes counted from midnight of "today" (day 0); the date of *)
(* a time t is t \div 1440.  An interval is a pair <<start, end>>.  An     *)
(* absent value (Python None) is the empty sequence; a present deadline d  *)
(* is <<d>>.  Daylight-saving shifts of Europe/London are not modelled.    *)
(* The run reads the clock once (variable now); the code re-reads it in    *)
(* every call.                                                             *)
(***************************************************************************)
EXTENDS Integers, Sequences, FiniteSets, TLC

VARIABLES
    now,                    \* datetime.now() in minutes
    parsed_tasks,           \* parse_personal_and_work_tasks()
    energy_profile,         \* fetch_working_hours_and_energy_levels()
    occupied_slots,         \* the list of occupied intervals
    scored_tasks,           \* the tasks of scored_tasks, in sorted order
    available_timeslots,    \* task id -> sequence of <<day, slots>>
    scheduled_tasks,        \* the list schedule_tasks builds and returns
    merged_scheduled_tasks, \* result of merge_scheduled_tasks
    report,                 \* task id -> what schedule_tasks printed for it
    pc,                     \* position in __main__
    gi,                     \* index of the task get_available_timeslots is called for
    ti,                     \* index of the task schedule_tasks is placing
    di,                     \* index of the day entry of task_slots
    si,                     \* index of the slot in sorted_slots
    remaining_time,         \* remaining_time of the task being placed
    scheduled_parts,        \* scheduled_parts of the task being placed
    intervals,              \* argument of a direct call of merge_overlapping_intervals
    merged_intervals,       \* its result
    window,                 \* (slot_start, slot_end) of the window the subtraction starts from
    window_occupied,        \* the occupied intervals subtracted from it
    fully_available,        \* fully_available_parts after the subtraction
    scoring_task,           \* argument of a direct call of calculate_task_score
    task_score,             \* the deadline urgency it used and the score it returned
    sheet,                  \* the weekly template in Google Sheets
    calendar,               \* the primary calendar in Google Calendar
    task_events,            \* tasks of __main__: task id -> event, from fetch_calendar_events
    writes,                 \* the insert and update calls sent to the calendar
    raised,                 \* the exception that ended the run, or None
    failing,                \* the events().insert / update calls that will fail
    round,                  \* number of the reconciliation against the calendar
    weather_cache,          \* the file weather_cache.json
    weather_api,            \* what the Met Office request will answer
    weather_data,           \* weather_data of __main__
    hot_weather,            \* hot_weather of __main__
    sheet_id,               \* the spreadsheet fetch_working_hours_and_energy_levels reads
    calendar_events         \* calendar_events of assistantV6's __main__

\* Arguments and results of the direct calls.
callVars == <<window, window_occupied, fully_available, scoring_task, task_score>>

\* The external services and what the run exchanged with them.
externalVars == <<sheet, calendar, task_events, writes, raised, failing, round>>

\* The weather lookup and the template it selects.
weatherVars == <<weather_cache, weather_api, weather_data, hot_weather, sheet_id>>

vars == <<now, parsed_tasks, energy_profile, occupied_slots, scored_tasks,
          available_timeslots, scheduled_tasks, merged_scheduled_tasks, report,
          pc, gi, ti, di, si, remaining_time, scheduled_parts,
          intervals, merged_intervals, callVars, externalVars, weatherVars, calendar_events>>

----------------------------------------------------------------------------
(* Bounds of the model *)

MaxTasks == 2
MaxOccupied == 2
MaxIntervals == 3
MaxAllocations == 2
MaxRounds == 2

----------------------------------------------------------------------------
(* Time helpers *)

MinutesPerDay == 24 * 60
HorizonDays == 28
H(h, m) == h * 60 + m
At(day, h, m) == day * MinutesPerDay + H(h, m)
DateOf(t) == t \div MinutesPerDay
Min(a, b) == IF a <= b THEN a ELSE b
Max(a, b) == IF a >= b THEN a ELSE b
None == <<>>
\* No exception was raised.
NotRaised == "none"
Range(s) == {s[i] : i \in DOMAIN s}

\* Half-open intervals a and b share a point of time.
Overlaps(a, b) == a[1] < b[2] /\ b[1] < a[2]

----------------------------------------------------------------------------
(* merge_overlapping_intervals *)

RECURSIVE InsertByStart(_, _)
InsertByStart(sorted, x) ==
    IF sorted = <<>> THEN <<x>>
    ELSE IF sorted[1][1] <= x[1]
         THEN <<sorted[1]>> \o InsertByStart(Tail(sorted), x)
         ELSE <<x>> \o sorted

\* intervals.sort(key=lambda x: x[0]): stable, ascending by start.
RECURSIVE SortByStart(_)
SortByStart(s) ==
    IF s = <<>> THEN <<>>
    ELSE InsertByStart(SortByStart(SubSeq(s, 1, Len(s) - 1)), s[Len(s)])

\* Mutant of MergeStep: merges only on strict overlap, not on adjacency.
MergeStepStrict(merged, current) ==
    LET prev == merged[Len(merged)]
    IN  IF current[1] < prev[2]
        THEN [merged EXCEPT ![Len(merged)] = <<prev[1], Max(prev[2], current[2])>>]
        ELSE Append(merged, current)

\* Mutant of MergeStep: a merge takes the end of the later interval instead
\* of the later of the two ends.
MergeStepLastEnd(merged, current) ==
    LET prev == merged[Len(merged)]
    IN  IF current[1] <= prev[2]
        THEN [merged EXCEPT ![Len(merged)] = <<prev[1], current[2]>>]
        ELSE Append(merged, current)

\* One iteration of the loop over intervals[1:].
MergeStep(merged, current) ==
    LET prev == merged[Len(merged)]
    IN  IF current[1] <= prev[2]
        THEN [merged EXCEPT ![Len(merged)] = <<prev[1], Max(prev[2], current[2])>>]
        ELSE Append(merged, current)

RECURSIVE MergeFold(_, _)
MergeFold(merged, rest) ==
    IF rest = <<>> THEN merged
    ELSE MergeFold(MergeStep(merged, rest[1]), Tail(rest))

merge_overlapping_intervals(ivs) ==
    IF ivs = <<>> THEN <<>>
    ELSE LET s == SortByStart(ivs) IN MergeFold(<<s[1]>>, Tail(s))

----------------------------------------------------------------------------
(* calculate_task_score.  A score is a pair <<n, k>> that stands for the   *)
(* number n / (ScoreUnit * k): ScoreUnit clears the denominators of the    *)
(* three normalised terms and k = deadline_days + 1 that of the deadline   *)
(* term.  Weights are in tenths.                                           *)

max_time == 480
maximum_energy == 3
weight_T == 2
weight_E == 4
weight_I == 3
weight_D == 1
ScoreUnit == max_time * maximum_energy * 10

energy_required(level) ==
    CASE level = "low" -> 1 [] level = "medium" -> 2 [] level = "high" -> 3 [] OTHER -> 0

impact_mapping(impact) ==
    CASE impact = "very high" -> 4 [] impact = "high" -> 3
      [] impact = "medium" -> 2 [] impact = "low" -> 1 [] OTHER -> 0

\* (deadline - current_time).days: whole days, rounded towards minus infinity.
deadline_days(deadline, current_time) == (deadline - current_time) \div MinutesPerDay

\* Mutant of deadline_urgency: a deadline less than a day ahead counts as
\* overdue.
deadline_urgency_strict(deadline, current_time) ==
    IF deadline = None THEN <<0, 1>>
    ELSE LET days == deadline_days(deadline[1], current_time)
         IN  IF days > 0 THEN <<1, days + 1>> ELSE <<2, 1>>

\* The urgency factor of deadline_score as the fraction <<n, k>> = n / k:
\* 1 / (deadline_days + 1), which is 0.0 for deadline_days = inf, or the 2
\* of the overdue branch.
deadline_urgency(deadline, current_time) ==
    IF deadline = None THEN <<0, 1>>
    ELSE LET days == deadline_days(deadline[1], current_time)
         IN  IF days >= 0 THEN <<1, days + 1>> ELSE <<2, 1>>

calculate_task_score(task, current_time) ==
    LET time_score == task.estimated_time * weight_T * maximum_energy
        energy_score == energy_required(task.energy_level) * weight_E * max_time
        impact_score == impact_mapping(task.impact) * weight_I * max_time * maximum_energy
        base == time_score + energy_score + impact_score
        urgency == deadline_urgency(task.deadline, current_time)
        overdue == task.deadline # None /\ deadline_days(task.deadline[1], current_time) < 0
    IN  IF overdue
        THEN <<base * urgency[2] + urgency[1] * ScoreUnit, urgency[2]>>
        ELSE <<base * urgency[2] + urgency[1] * weight_D * max_time * maximum_energy,
               urgency[2]>>

ScoreLess(a, b) == a[1] * b[2] < b[1] * a[2]
ScoreEq(a, b) == a[1] * b[2] = b[1] * a[2]

----------------------------------------------------------------------------
(* fetch_working_hours_and_energy_levels.  A template row is               *)
(* [day_name, start_time, end_time, task_type, energy]: day_name is the    *)
(* weekday counted from today's (0..6), the times are minutes of the day.  *)

convert_energy_level(energy_level) ==
    IF 1 <= energy_level /\ energy_level <= 3 THEN "low"
    ELSE IF 4 <= energy_level /\ energy_level <= 6 THEN "medium"
    ELSE IF 7 <= energy_level /\ energy_level <= 10 THEN "high"
    ELSE "unknown"

\* matching_dates: a date of date_list matches a row when its weekday does.
MatchesDay(date, row) == date % 7 = row.day_name

ProfileEntry(date, row) ==
    [time_range |-> <<date * MinutesPerDay + row.start_time,
                      date * MinutesPerDay + row.end_time>>,
     task_type |-> row.task_type,
     energy_level |-> convert_energy_level(row.energy)]

RECURSIVE EntriesForDate(_, _)
EntriesForDate(date, rows) ==
    IF rows = <<>> THEN <<>>
    ELSE (IF MatchesDay(date, rows[1]) THEN <<ProfileEntry(date, rows[1])>> ELSE <<>>)
         \o EntriesForDate(date, Tail(rows))

\* A sheet is [reachable, rows].  The request raises when the sheet cannot
\* be reached and the except clause returns {}; otherwise every date of the
\* horizon gets an entry before the rows are read.
fetch_working_hours_and_energy_levels(template) ==
    IF ~template.reachable THEN <<>>
    ELSE [date \in 0..(HorizonDays - 1) |-> EntriesForDate(date, template.rows)]

----------------------------------------------------------------------------
(* fetch_working_hours_and_energy_levels of assistantV4.py.  Its profile   *)
(* has one key per day name; the windows of a day name are dated on the    *)
(* next occurrence of that weekday, day_name days from today.              *)

convert_energy_level_V4(energy_level) ==
    IF 1 <= energy_level /\ energy_level <= 3 THEN "low"
    ELSE IF 4 <= energy_level /\ energy_level <= 7 THEN "medium"
    ELSE IF 8 <= energy_level /\ energy_level <= 10 THEN "high"
    ELSE "unknown"

LastMinute == H(23, 59)

\* energy_profile[day_name].append({...}), after "if day_name not in
\* energy_profile: energy_profile[day_name] = []".
AppendWindow(profile, day_name, time_range, row) ==
    LET entry == [time_range |-> time_range,
                  task_type |-> row.task_type,
                  energy_level |-> convert_energy_level_V4(row.energy)]
    IN  [name \in DOMAIN profile \cup {day_name} |->
            IF name = day_name
            THEN (IF name \in DOMAIN profile THEN profile[name] ELSE <<>>) \o <<entry>>
            ELSE profile[name]]

\* The body of the loop over the rows.  end_time is built on the date of
\* start_time; for an overnight row second_part runs from midnight of the
\* next day to that end_time.
ExpandRowV4(profile, row) ==
    LET next_day_date == row.day_name
        start_time == next_day_date * MinutesPerDay + row.start_time
        end_time == next_day_date * MinutesPerDay + row.end_time
    IN  IF end_time <= start_time
        THEN LET first_part == <<start_time, DateOf(start_time) * MinutesPerDay + LastMinute>>
                 next_day == start_time + MinutesPerDay
                 second_part == <<DateOf(next_day) * MinutesPerDay, end_time>>
                 next_day_name == DateOf(next_day) % 7
             IN  AppendWindow(AppendWindow(profile, row.day_name, first_part, row),
                              next_day_name, second_part, row)
        ELSE AppendWindow(profile, row.day_name, <<start_time, end_time>>, row)

RECURSIVE ExpandRowsV4(_, _)
ExpandRowsV4(profile, rows) ==
    IF rows = <<>> THEN profile
    ELSE ExpandRowsV4(ExpandRowV4(profile, rows[1]), Tail(rows))

fetch_working_hours_and_energy_levels_V4(template) ==
    IF ~template.reachable THEN <<>>
    ELSE ExpandRowsV4(<<>>, template.rows)

----------------------------------------------------------------------------
(* get_weather and weather_analysis *)
(* A feels-like temperature is a number, the JSON null of the response, or *)
(* the text 'Data not available' that get_weather stores for a null.  A    *)
(* cache file is [exists, readable, timestamp, weather_data]; readable is  *)
(* FALSE when json.load or the reading of its keys raises.                 *)

MaxReadings == 2

threshold_temp == 22
CacheLifetime == 3 * 60

Number(n) == [kind |-> "number", n |-> n]
Null == [kind |-> "null", n |-> 0]
DataNotAvailable == [kind |-> "text", n |-> 0]

NoCache == [exists |-> FALSE, readable |-> FALSE, timestamp |-> 0, weather_data |-> <<>>]

\* The loop over time_series: time and feels-like temperature of each period.
ExtractReadings(time_series) ==
    [k \in DOMAIN time_series |->
        [time |-> time_series[k].time,
         feelsLikeTemperature |->
             IF time_series[k].feelsLikeTemperature # Null
             THEN time_series[k].feelsLikeTemperature
             ELSE DataNotAvailable]]

\* The request to the Met Office: HTTPError and RequestException are caught
\* and [] is returned; otherwise the readings are written to the cache with
\* the time of the request.
RequestWeather(cache, service, current_time) ==
    IF service.outcome # "ok"
    THEN [weather_data |-> <<>>, cache |-> cache, raised |-> NotRaised]
    ELSE LET weather_data_ == IF service.features
                              THEN ExtractReadings(service.timeSeries)
                              ELSE <<>>
         IN  [weather_data |-> weather_data_,
              cache |-> [exists |-> TRUE, readable |-> TRUE,
                         timestamp |-> current_time, weather_data |-> weather_data_],
              raised |-> NotRaised]

\* The cache file is read outside the try: what json.load or the reading of
\* "timestamp" raises leaves get_weather.
get_weather(cache, service, current_time) ==
    IF cache.exists
    THEN IF ~cache.readable
         THEN [weather_data |-> <<>>, cache |-> cache, raised |-> "JSONDecodeError"]
         ELSE IF current_time < cache.timestamp + CacheLifetime
              THEN [weather_data |-> cache.weather_data, cache |-> cache,
                    raised |-> NotRaised]
              ELSE RequestWeather(cache, service, current_time)
    ELSE RequestWeather(cache, service, current_time)

weather_analysis(readings, threshold) ==
    \E k \in DOMAIN readings :
        /\ readings[k].feelsLikeTemperature.kind = "number"
        /\ readings[k].feelsLikeTemperature.n > threshold

NoSheet == "none"
standard_sheet_id == "standard"
hot_weather_sheet_id == "hot_weather"

\* sheet_id = hot_weather_sheet_id if weather_analysis else standard_sheet_id
ChooseSheet(hot) == IF hot THEN hot_weather_sheet_id ELSE standard_sheet_id

----------------------------------------------------------------------------
(* get_available_timeslots *)

convert_energy_level_to_int(energy_level) ==
    CASE energy_level = "low" -> 1 [] energy_level = "medium" -> 2
      [] energy_level = "high" -> 3 [] OTHER -> 0

\* task_deadline = None becomes 9999-12-31 23:59:59, later than every time
\* of the horizon; the number stands for it.
FarFuture == 2000000000

\* Mutant of EffectiveDeadline: every task is treated as having no deadline.
IgnoreDeadline(task_deadline) == FarFuture

EffectiveDeadline(task_deadline) ==
    IF task_deadline = None THEN FarFuture ELSE task_deadline[1]

\* Mutant of SubtractPart: a meeting that starts inside the free part no
\* longer cuts it.
SubtractPartNoCut(part, occupied) ==
    LET free_start == part[1]
        free_end == part[2]
        occupied_start == occupied[1]
        occupied_end == occupied[2]
    IN  IF free_start >= occupied_start /\ free_end <= occupied_end THEN <<>>
        ELSE IF free_start < occupied_end /\ occupied_end < free_end
             THEN << <<occupied_end, free_end>> >>
        ELSE <<part>>

\* The body of the loop over fully_available_parts for one occupied interval:
\* the parts (none or one) that one free part leaves.
SubtractPart(part, occupied) ==
    LET free_start == part[1]
        free_end == part[2]
        occupied_start == occupied[1]
        occupied_end == occupied[2]
    IN  IF free_start >= occupied_start /\ free_end <= occupied_end THEN <<>>
        ELSE IF free_start < occupied_start /\ occupied_start < free_end
             THEN << <<free_start, occupied_start>> >>
        ELSE IF free_start < occupied_end /\ occupied_end < free_end
             THEN << <<occupied_end, free_end>> >>
        ELSE <<part>>

RECURSIVE SubtractFromParts(_, _)
SubtractFromParts(parts, occupied) ==
    IF parts = <<>> THEN <<>>
    ELSE SubtractPart(parts[1], occupied) \o SubtractFromParts(Tail(parts), occupied)

RECURSIVE fully_available_parts(_, _)
fully_available_parts(parts, occupied) ==
    IF occupied = <<>> THEN parts
    ELSE fully_available_parts(SubtractFromParts(parts, occupied[1]), Tail(occupied))

\* The while loop that cuts a free part into chunks of `size` minutes.
RECURSIVE Chunks(_, _, _)
Chunks(current_chunk_start, free_end, size) ==
    IF current_chunk_start < free_end
    THEN LET current_chunk_end == Min(current_chunk_start + size, free_end)
         IN  << <<current_chunk_start, current_chunk_end>> >>
             \o Chunks(current_chunk_end, free_end, size)
    ELSE <<>>

ChunkSize(task_energy_level_int) == IF task_energy_level_int # 3 THEN 15 ELSE 30

\* What one free part adds to available_slots (nothing or one slot).
SlotsOfPart(part, slot, task) ==
    LET free_start == part[1]
        free_end == part[2]
        slot_duration == free_end - free_start
        slot_energy_level == convert_energy_level_to_int(slot.energy_level)
        task_energy_level_int == convert_energy_level_to_int(task.energy_level)
    IN  IF slot_energy_level >= task_energy_level_int /\ slot.task_type = task.task_type
        THEN IF slot_duration >= task.estimated_time
             THEN <<part>>
             ELSE LET chunks == Chunks(free_start, free_end, ChunkSize(task_energy_level_int))
                  IN  IF chunks # <<>>
                      THEN << <<chunks[1][1], chunks[Len(chunks)][2]>> >>
                      ELSE <<>>
        ELSE <<>>

RECURSIVE SlotsOfParts(_, _, _)
SlotsOfParts(parts, slot, task) ==
    IF parts = <<>> THEN <<>>
    ELSE SlotsOfPart(parts[1], slot, task) \o SlotsOfParts(Tail(parts), slot, task)

\* The body of the loop over the slots of one day.
SlotsOfWindow(slot, occupied, task, current_time) ==
    LET slot_start == slot.time_range[1]
        slot_end == slot.time_range[2]
    IN  IF slot_end <= current_time \/ slot_start >= EffectiveDeadline(task.deadline)
        THEN <<>>
        ELSE SlotsOfParts(fully_available_parts(<<slot.time_range>>, occupied), slot, task)

RECURSIVE SlotsOfDay(_, _, _, _)
SlotsOfDay(slots, occupied, task, current_time) ==
    IF slots = <<>> THEN <<>>
    ELSE SlotsOfWindow(slots[1], occupied, task, current_time)
         \o SlotsOfDay(Tail(slots), occupied, task, current_time)

RECURSIVE TimeslotsFrom(_, _, _, _, _)
TimeslotsFrom(day, profile, occupied, task, current_time) ==
    IF day >= HorizonDays THEN <<>>
    ELSE LET available_slots == SlotsOfDay(profile[day], occupied, task, current_time)
         IN  (IF available_slots # <<>> THEN << <<day, available_slots>> >> ELSE <<>>)
             \o TimeslotsFrom(day + 1, profile, occupied, task, current_time)

\* The result is the sequence of <<day, available_slots>> in the order of the
\* profile's dates; days without slots are absent.  `task` carries the
\* task_type, energy_level and deadline arguments and the estimated_time the
\* function reads from the caller's loop variable.
get_available_timeslots(profile, occupied, task, current_time) ==
    TimeslotsFrom(0, profile, occupied, task, current_time)

----------------------------------------------------------------------------
(* __main__: scoring and sorting.  An element of scored_tasks is the pair  *)
(* <<task, score>>.                                                        *)

\* Mutant of KeepsBefore: a task of equal score no longer stays in front.
KeepsBeforeStrict(kept, x) == ScoreLess(x[2], kept[2])

\* Mutant of KeepsBefore: the sort is ascending.
KeepsBeforeAscending(kept, x) == ~ScoreLess(x[2], kept[2])

\* Whether `kept`, which came earlier in the list, stays in front of x under
\* sort(key=score, reverse=True): the sort is stable, so it does unless its
\* score is smaller.
KeepsBefore(kept, x) == ~ScoreLess(kept[2], x[2])

RECURSIVE InsertByScore(_, _)
InsertByScore(sorted, x) ==
    IF sorted = <<>> THEN <<x>>
    ELSE IF KeepsBefore(sorted[1], x)
         THEN <<sorted[1]>> \o InsertByScore(Tail(sorted), x)
         ELSE <<x>> \o sorted

RECURSIVE SortByScore(_)
SortByScore(s) ==
    IF s = <<>> THEN <<>>
    ELSE InsertByScore(SortByScore(SubSeq(s, 1, Len(s) - 1)), s[Len(s)])

ScoredTasks(tasks, current_time) ==
    SortByScore([i \in DOMAIN tasks |-> <<tasks[i], calculate_task_score(tasks[i], current_time)>>])

----------------------------------------------------------------------------
(* schedule_tasks *)

\* Mutant of Conflicts: only an occupied interval that covers the whole slot
\* counts as a conflict.
ConflictsWhenCovered(slot_start, slot_end, occupied) ==
    \E i \in DOMAIN occupied :
        occupied[i][1] <= slot_start /\ occupied[i][2] >= slot_end

\* conflicts = any(occupied_start < slot_end and occupied_end > slot_start ...)
Conflicts(slot_start, slot_end, occupied) ==
    \E i \in DOMAIN occupied :
        occupied[i][1] < slot_end /\ occupied[i][2] > slot_start

\* Mutant of CommitPart: the occupied list is re-merged after the append.
CommitPartMerged(occupied, task_start, task_end) ==
    merge_overlapping_intervals(Append(occupied, <<task_start, task_end>>))

\* occupied_slots.append((task_start, task_end))
CommitPart(occupied, task_start, task_end) == Append(occupied, <<task_start, task_end>>)

\* The loop that moves scheduled_parts into scheduled_tasks: a part is added
\* unless an entry with the same start and end is already in the list.
RECURSIVE AddScheduledParts(_, _, _)
AddScheduledParts(scheduled, parts, task) ==
    IF parts = <<>> THEN scheduled
    ELSE LET part_start == parts[1][1]
             part_end == parts[1][2]
             present == \E i \in DOMAIN scheduled :
                            scheduled[i].start_time = part_start
                            /\ scheduled[i].end_time = part_end
             entry == [task_id |-> task.id, task_name |-> task.name,
                       start_time |-> part_start, end_time |-> part_end]
         IN  AddScheduledParts(IF present THEN scheduled ELSE Append(scheduled, entry),
                               Tail(parts), task)

----------------------------------------------------------------------------
(* merge_scheduled_tasks *)

\* The order of Python's string comparison on the task names of the model.
NameRank(name) ==
    CASE name = "chores" -> 1 [] name = "email" -> 2 [] name = "report" -> 3 [] OTHER -> 4

\* key=lambda x: (x["task_name"], x["start_time"].date(), x["start_time"])
SortKeyLeq(a, b) ==
    \/ NameRank(a.task_name) < NameRank(b.task_name)
    \/ /\ NameRank(a.task_name) = NameRank(b.task_name)
       /\ \/ DateOf(a.start_time) < DateOf(b.start_time)
          \/ /\ DateOf(a.start_time) = DateOf(b.start_time)
             /\ a.start_time <= b.start_time

RECURSIVE InsertByKey(_, _)
InsertByKey(sorted, x) ==
    IF sorted = <<>> THEN <<x>>
    ELSE IF SortKeyLeq(sorted[1], x)
         THEN <<sorted[1]>> \o InsertByKey(Tail(sorted), x)
         ELSE <<x>> \o sorted

RECURSIVE SortByKey(_)
SortByKey(s) ==
    IF s = <<>> THEN <<>>
    ELSE InsertByKey(SortByKey(SubSeq(s, 1, Len(s) - 1)), s[Len(s)])

\* The condition under which next_task extends current_task.
Consecutive(current_task, next_task) ==
    /\ next_task.task_name = current_task.task_name
    /\ DateOf(next_task.start_time) = DateOf(current_task.start_time)
    /\ next_task.start_time = current_task.end_time

\* The loop over scheduled_tasks[1:].  st.list is the sorted list, whose
\* entries the loop changes in place; st.head is the position of current_task
\* in it; st.merged and st.occupied are merged_tasks and occupied_slots.
RECURSIVE MergeLoop(_, _)
MergeLoop(st, k) ==
    IF k > Len(st.list)
    THEN [st EXCEPT !.merged = Append(st.merged, st.list[st.head]),
                    !.occupied = Append(st.occupied,
                        <<st.list[st.head].start_time, st.list[st.head].end_time>>)]
    ELSE LET current_task == st.list[st.head]
             next_task == st.list[k]
         IN  IF Consecutive(current_task, next_task)
             THEN MergeLoop([st EXCEPT !.list[st.head].end_time = next_task.end_time], k + 1)
             ELSE MergeLoop([st EXCEPT !.merged = Append(st.merged, current_task),
                                       !.occupied = Append(st.occupied,
                                           <<current_task.start_time, current_task.end_time>>),
                                       !.head = k], k + 1)

\* Returns [merged, list, occupied]: the merged tasks, the argument list as
\* the call leaves it, and the global occupied_slots as the call leaves it.
merge_scheduled_tasks(scheduled, occupied) ==
    IF scheduled = <<>>
    THEN [merged |-> <<>>, list |-> scheduled, occupied |-> occupied, head |-> 0]
    ELSE MergeLoop([merged |-> <<>>, list |-> SortByKey(scheduled),
                    occupied |-> occupied, head |-> 1], 2)

----------------------------------------------------------------------------
(* The calendar.  calendar.events is the set of the events the scheduler   *)
(* created, each [id, task_id, start, end]: the task id is the one its     *)
(* description carries ("Task ID: ...").  The other events (meetings,      *)
(* travel, screen-free time) are an input of the fetch: the run never      *)
(* writes them.  Task ids are numbers here: the lower-casing of the        *)
(* description does not change them.                                       *)

\* events().list(orderBy='startTime'): the listings of the events in start
\* order; events with equal starts come in either order.
Listings(events) ==
    LET n == Cardinality(events)
    IN  { l \in [1..n -> events] :
            /\ \A i, j \in 1..n : i # j => l[i] # l[j]
            /\ \A i, j \in 1..n : i < j => l[i].start <= l[j].start }

\* The second loop of fetch_calendar_events, "tasks[task_id] = event": the
\* last event listed for a task id is the one that stays.
TasksOf(listing) ==
    [task_id \in { listing[i].task_id : i \in DOMAIN listing } |->
        listing[CHOOSE i \in DOMAIN listing :
                    /\ listing[i].task_id = task_id
                    /\ \A j \in DOMAIN listing : listing[j].task_id = task_id => j <= i]]

(* fetch_calendar_events in full.  A fetched event is [id, travel,         *)
(* screen_free, by_scheduler, task_id, parent, start, end, parsable]:      *)
(* travel and screen_free say whether the lower-cased summary contains     *)
(* 'travel' and 'screen-free time', by_scheduler whether the description   *)
(* contains 'scheduled by task scheduler', task_id and parent are what the *)
(* patterns 'task id:' and 'parent meeting id:' find in the description (0 *)
(* and "" when they find nothing), parsable is FALSE when                  *)
(* parse_event_datetime fails and returns (None, None).                    *)

NoParent == ""

\* dict[key] = value
Put(dict, key, value) ==
    [k \in DOMAIN dict \cup {key} |-> IF k = key THEN value ELSE dict[k]]

\* The body of the first loop: the meetings.  An event that cannot be
\* parsed is skipped.
MeetingStep(st, event) ==
    IF st.raised # NotRaised THEN st
    ELSE IF ~event.parsable THEN st
    ELSE IF ~event.by_scheduler /\ ~event.travel /\ ~event.screen_free
         THEN [st EXCEPT !.meetings = Put(st.meetings, event.id, event),
                         !.occupied_slots = Append(st.occupied_slots,
                                                   <<event.start, event.end>>)]
         ELSE st

\* The travel branch of the second loop.  Returns the state and whether the
\* branch ended in "continue".  A parent that is not among the meetings
\* gives meeting_start_time = None, and "start_time < None" raises.
TravelBranch(st, event) ==
    IF event.travel /\ event.parent # NoParent
    THEN IF event.parent \notin DOMAIN st.meetings
         THEN [st |-> [st EXCEPT !.raised = "TypeError"], continue |-> TRUE]
         ELSE LET meeting_start_time == st.meetings[event.parent].start
                  side == IF event.start < meeting_start_time THEN "before" ELSE "after"
              IN  [st |-> [st EXCEPT
                             !.travel_times = Put(st.travel_times, <<event.parent, side>>,
                                                  <<event.id, event.start, event.end>>),
                             !.occupied_slots = Append(st.occupied_slots,
                                                       <<event.start, event.end>>)],
                   continue |-> side = "after"]
    ELSE [st |-> st, continue |-> FALSE]

\* The body of the second loop: tasks, travel time, screen-free time.
CategoriseStep(st, event) ==
    IF st.raised # NotRaised THEN st
    ELSE IF ~event.parsable THEN st
    ELSE IF event.by_scheduler
         THEN IF event.task_id # 0
              THEN [st EXCEPT !.tasks = Put(st.tasks, event.task_id, event)]
              ELSE st
    ELSE LET t == TravelBranch(st, event)
         IN  IF t.continue THEN t.st
             ELSE IF event.screen_free /\ event.parent # NoParent
                  THEN [t.st EXCEPT
                          !.screen_free_times = Put(t.st.screen_free_times, event.parent,
                                                    <<event.id, event.start, event.end>>),
                          !.occupied_slots = Append(t.st.occupied_slots,
                                                    <<event.start, event.end>>)]
                  ELSE t.st

RECURSIVE MeetingLoop(_, _)
MeetingLoop(st, all_events) ==
    IF all_events = <<>> THEN st
    ELSE MeetingLoop(MeetingStep(st, all_events[1]), Tail(all_events))

RECURSIVE CategoriseLoop(_, _)
CategoriseLoop(st, all_events) ==
    IF all_events = <<>> THEN st
    ELSE CategoriseLoop(CategoriseStep(st, all_events[1]), Tail(all_events))

\* Returns [meetings, tasks, travel_times, screen_free_times, occupied_slots]
\* and the exception that left the function, if any.
fetch_calendar_events(all_events) ==
    CategoriseLoop(MeetingLoop([meetings |-> <<>>, tasks |-> <<>>, travel_times |-> <<>>,
                                screen_free_times |-> <<>>, occupied_slots |-> <<>>,
                                raised |-> NotRaised],
                               all_events),
                   all_events)

\* The id the calendar gives to an inserted event.
NewEventId(events) ==
    IF events = {} THEN 1
    ELSE 1 + CHOOSE m \in { e.id : e \in events } : \A e \in events : e.id <= m

\* Mutant of events_update: the call changes every event of the calendar.
update_all_events(events, event_id, start_time, end_time) ==
    { [e EXCEPT !.start = start_time, !.end = end_time] : e \in events }

\* events().update(eventId=..., body=updated_event).execute(), when it succeeds.
events_update(events, event_id, start_time, end_time) ==
    { IF e.id = event_id THEN [e EXCEPT !.start = start_time, !.end = end_time] ELSE e :
        e \in events }

\* events().insert(body=event).execute(), when it succeeds.
events_insert(events, task_id, start_time, end_time) ==
    events \cup { [id |-> NewEventId(events), task_id |-> task_id,
                   start |-> start_time, end |-> end_time] }

\* The record of one call sent to the calendar: k is the position of the
\* allocation in the list manage_calendar_events was given.
Call(rnd, k, op, event_id, task, fail) ==
    [round |-> rnd, index |-> k, op |-> op, event_id |-> event_id,
     task_id |-> task.task_id, start_time |-> task.start_time,
     end_time |-> task.end_time, ok |-> k \notin fail]

\* schedule_event: the insert is inside try / except, a failure is printed.
schedule_event(st, k, task, fail, rnd) ==
    LET call == Call(rnd, k, "insert", 0, task, fail)
    IN  IF k \in fail
        THEN [st EXCEPT !.writes = Append(@, call)]
        ELSE [st EXCEPT !.writes = Append(@, call),
                        !.events = events_insert(@, task.task_id, task.start_time,
                                                task.end_time)]

\* The update of manage_calendar_events: no try / except around execute().
PushUpdate(st, k, task, existing_event, fail, rnd) ==
    LET call == Call(rnd, k, "update", existing_event.id, task, fail)
    IN  IF k \in fail
        THEN [st EXCEPT !.writes = Append(@, call), !.raised = "HttpError"]
        ELSE [st EXCEPT !.writes = Append(@, call),
                        !.events = events_update(@, existing_event.id, task.start_time,
                                                task.end_time)]

\* The body of "for task in scheduled_tasks" for the entry at position k.
\* st is [events, writes, raised]: the calendar's events, the calls sent and
\* the exception raised.
ManageStep(st, k, scheduled, existing_tasks, parsed, fail, rnd) ==
    LET task == scheduled[k]
    IN  IF "task_id" \notin DOMAIN task
        THEN [st EXCEPT !.raised = "KeyError"]
        ELSE IF \A i \in DOMAIN parsed : parsed[i].id # task.task_id
        THEN st
        ELSE IF task.task_id \in DOMAIN existing_tasks
        THEN LET existing_event == existing_tasks[task.task_id]
             IN  IF existing_event.start # task.start_time
                    \/ existing_event.end # task.end_time
                 THEN PushUpdate(st, k, task, existing_event, fail, rnd)
                 ELSE st
        ELSE schedule_event(st, k, task, fail, rnd)

RECURSIVE ManageLoop(_, _, _, _, _, _, _)
ManageLoop(st, k, scheduled, existing_tasks, parsed, fail, rnd) ==
    IF k > Len(scheduled) \/ st.raised # NotRaised THEN st
    ELSE ManageLoop(ManageStep(st, k, scheduled, existing_tasks, parsed, fail, rnd),
                    k + 1, scheduled, existing_tasks, parsed, fail, rnd)

manage_calendar_events(st, scheduled, existing_tasks, parsed, fail, rnd) ==
    ManageLoop(st, 1, scheduled, existing_tasks, parsed, fail, rnd)

----------------------------------------------------------------------------
(* The end of __main__: scheduled_task_dict and the calls of               *)
(* manage_calendar_events                                                  *)

\* The segments scheduled_task_dict holds for a task id, in list order.
RECURSIVE SegmentsOf(_, _)
SegmentsOf(merged, task_id) ==
    IF merged = <<>> THEN <<>>
    ELSE (IF merged[1].task_id = task_id
          THEN << [start_time |-> merged[1].start_time, end_time |-> merged[1].end_time,
                   event_id |-> None] >>
          ELSE <<>>) \o SegmentsOf(Tail(merged), task_id)

\* The task ids in the order scheduled_task_dict receives them.
RECURSIVE TaskIdsOf(_)
TaskIdsOf(merged) ==
    IF merged = <<>> THEN <<>>
    ELSE LET before == TaskIdsOf(SubSeq(merged, 1, Len(merged) - 1))
             task_id == merged[Len(merged)].task_id
         IN  IF task_id \in Range(before) THEN before ELSE Append(before, task_id)

\* scheduled_task_dict.items(): pairs <<task_id, scheduled_segments>>.
scheduled_task_dict(merged) ==
    LET ids == TaskIdsOf(merged)
    IN  [i \in DOMAIN ids |-> <<ids[i], SegmentsOf(merged, ids[i])>>]

\* "for segment in scheduled_segments": existing_starts holds what
\* parse_event_datetime gives for the keys of the event, None, so no start
\* time is in it and every segment goes to manage_calendar_events.
RECURSIVE UpdateSegments(_, _, _, _, _, _)
UpdateSegments(st, scheduled_segments, existing_tasks_grouped, parsed, fail, rnd) ==
    IF scheduled_segments = <<>> \/ st.raised # NotRaised THEN st
    ELSE UpdateSegments(manage_calendar_events(st, <<scheduled_segments[1]>>,
                                               existing_tasks_grouped, parsed, fail, rnd),
                        Tail(scheduled_segments), existing_tasks_grouped, parsed, fail, rnd)

\* The body of "for task_id, scheduled_segments in scheduled_task_dict.items()"
\* for one item.
ReconcileItem(st, item, existing_tasks_grouped, parsed, fail, rnd) ==
    LET task_id == item[1]
        scheduled_segments == item[2]
    IN  IF scheduled_segments = <<>> THEN st
        ELSE IF task_id \in DOMAIN existing_tasks_grouped
        THEN UpdateSegments(st, scheduled_segments, existing_tasks_grouped, parsed,
                            fail, rnd)
        ELSE manage_calendar_events(st, scheduled_segments, existing_tasks_grouped,
                                    parsed, fail, rnd)

RECURSIVE ReconcileItems(_, _, _, _, _, _)
ReconcileItems(st, items, existing_tasks_grouped, parsed, fail, rnd) ==
    IF items = <<>> \/ st.raised # NotRaised THEN st
    ELSE ReconcileItems(ReconcileItem(st, items[1], existing_tasks_grouped, parsed,
                                      fail, rnd),
                        Tail(items), existing_tasks_grouped, parsed, fail, rnd)

\* Lines 1508 - 1554.  existing_tasks_grouped = {task["id"]: task for task in
\* tasks} iterates over the keys of tasks, which are strings: task["id"]
\* raises TypeError unless tasks is empty, and then the result is {}.
ManageCalendar(st, merged, existing, parsed, fail, rnd) ==
    IF DOMAIN existing # {}
    THEN [st EXCEPT !.raised = "TypeError"]
    ELSE ReconcileItems(st, scheduled_task_dict(merged), <<>>, parsed, fail, rnd)

----------------------------------------------------------------------------
(* assistantV6.py: the events, the occupied list and the placing of tasks. *)
(* A fetched event is [id, by_scheduler, virtual, start, end]: by_scheduler *)
(* says whether its description contains 'Scheduled by task scheduler ',   *)
(* virtual what is_virtual_meeting returns for it.  The profile, the       *)
(* scores and merge_overlapping_intervals are the same code as in          *)
(* virtual_assistant.py.                                                   *)

travel_time == 30
RestMinutes == 15
ChunkMinutes == 15

RECURSIVE fetch_calendar_events_V6(_)
fetch_calendar_events_V6(items) ==
    IF items = <<>> THEN <<>>
    ELSE (IF ~items[1].by_scheduler THEN <<items[1]>> ELSE <<>>)
         \o fetch_calendar_events_V6(Tail(items))

\* Appends the screen-free time after a virtual meeting, or the travel time
\* before and after a meeting in person; never the time of the meeting.
handle_meeting_with_location_V6(occupied, event) ==
    IF event.virtual
    THEN Append(occupied, <<event.end, event.end + RestMinutes>>)
    ELSE Append(Append(occupied, <<event.start - travel_time, event.start>>),
                <<event.end, event.end + travel_time>>)

RECURSIVE HandleMeetings(_, _)
HandleMeetings(occupied, events) ==
    IF events = <<>> THEN occupied
    ELSE HandleMeetings(handle_meeting_with_location_V6(occupied, events[1]), Tail(events))

\* The occupied_slots get_available_timeslots gathers from calendar_events.
EventSlots(events) == [k \in DOMAIN events |-> <<events[k].start, events[k].end>>]

\* The while loop over the 15-minute chunks of a window: the chunks that
\* overlap no occupied slot.
RECURSIVE AvailableChunks(_, _, _)
AvailableChunks(current_chunk_start, slot_end, occupied) ==
    IF current_chunk_start < slot_end
    THEN LET current_chunk_end == Min(current_chunk_start + ChunkMinutes, slot_end)
             is_available == ~\E k \in DOMAIN occupied :
                                 current_chunk_start < occupied[k][2]
                                 /\ current_chunk_end > occupied[k][1]
         IN  (IF is_available THEN << <<current_chunk_start, current_chunk_end>> >> ELSE <<>>)
             \o AvailableChunks(current_chunk_end, slot_end, occupied)
    ELSE <<>>

\* What one window adds to available_slots.  A window at least as long as
\* the task is added whole, without a look at the occupied slots.
SlotsOfWindowV6(slot, occupied, task, current_time) ==
    LET slot_start == slot.time_range[1]
        slot_end == slot.time_range[2]
    IN  IF slot_start < current_time \/ slot_end > EffectiveDeadline(task.deadline)
        THEN <<>>
        ELSE IF convert_energy_level_to_int(slot.energy_level)
                    >= convert_energy_level_to_int(task.energy_level)
                /\ slot.task_type = task.task_type
        THEN IF slot_end - slot_start >= task.estimated_time
             THEN << slot.time_range >>
             ELSE LET chunks == AvailableChunks(slot_start, slot_end, occupied)
                  IN  IF chunks # <<>>
                      THEN << <<chunks[1][1], chunks[Len(chunks)][2]>> >>
                      ELSE <<>>
        ELSE <<>>

RECURSIVE SlotsOfDayV6(_, _, _, _)
SlotsOfDayV6(slots, occupied, task, current_time) ==
    IF slots = <<>> THEN <<>>
    ELSE SlotsOfWindowV6(slots[1], occupied, task, current_time)
         \o SlotsOfDayV6(Tail(slots), occupied, task, current_time)

RECURSIVE TimeslotsFromV6(_, _, _, _, _)
TimeslotsFromV6(day, profile, occupied, task, current_time) ==
    IF day >= HorizonDays THEN <<>>
    ELSE LET available_slots == SlotsOfDayV6(profile[day], occupied, task, current_time)
         IN  (IF available_slots # <<>> THEN << <<day, available_slots>> >> ELSE <<>>)
             \o TimeslotsFromV6(day + 1, profile, occupied, task, current_time)

\* The sequence of <<day, available_slots>> in the order of the dates.
get_available_timeslots_V6(profile, events, task, current_time) ==
    TimeslotsFromV6(0, profile, EventSlots(events), task, current_time)

\* "for slot in slots[:]" for one day.  st is [scheduled, occupied,
\* remaining, updated]: scheduled_tasks, occupied_slots, remaining_duration
\* and updated_slots.
RECURSIVE SlotLoopV6(_, _, _, _, _)
SlotLoopV6(st, slots, k, task, day) ==
    IF k > Len(slots) THEN st
    ELSE LET slot_start == slots[k][1]
             slot_end == slots[k][2]
             is_available == ~\E o \in DOMAIN st.occupied :
                                 slot_start < st.occupied[o][2]
                                 /\ slot_end > st.occupied[o][1]
         IN  IF ~is_available THEN SlotLoopV6(st, slots, k + 1, task, day)
             ELSE IF st.remaining <= 0 THEN st
             ELSE LET allocated_duration == Min(slot_end - slot_start, st.remaining)
                      leftover_start == slot_start + allocated_duration
                  IN  SlotLoopV6(
                          [scheduled |-> Append(st.scheduled,
                               [task_name |-> task.name, start_time |-> slot_start,
                                end_time |-> slot_start + allocated_duration, day |-> day]),
                           occupied |-> Append(st.occupied,
                               <<slot_start, slot_start + allocated_duration>>),
                           remaining |-> st.remaining - allocated_duration,
                           updated |-> IF leftover_start < slot_end
                                       THEN Append(st.updated, <<leftover_start, slot_end>>)
                                       ELSE st.updated],
                          slots, k + 1, task, day)

\* "for day, slots in sorted(task_timeslots.items())".  st is [scheduled,
\* occupied, remaining, timeslots]; the slots of a day are replaced by
\* updated_slots when the day is done.
RECURSIVE DayLoopV6(_, _, _)
DayLoopV6(st, d, task) ==
    IF d > Len(st.timeslots) THEN st
    ELSE LET r == SlotLoopV6([scheduled |-> st.scheduled, occupied |-> st.occupied,
                              remaining |-> st.remaining, updated |-> <<>>],
                             st.timeslots[d][2], 1, task, st.timeslots[d][1])
             after == [scheduled |-> r.scheduled, occupied |-> r.occupied,
                       remaining |-> r.remaining,
                       timeslots |-> [st.timeslots EXCEPT ![d] = <<st.timeslots[d][1], r.updated>>]]
         IN  IF r.remaining <= 0 THEN after ELSE DayLoopV6(after, d + 1, task)

\* "for task in tasks".  st is [scheduled, occupied, available]; available
\* has one entry per task name.
RECURSIVE TaskLoopV6(_, _, _)
TaskLoopV6(st, tasks, k) ==
    IF k > Len(tasks) THEN st
    ELSE LET task == tasks[k]
         IN  IF task.name \notin DOMAIN st.available THEN TaskLoopV6(st, tasks, k + 1)
             ELSE LET r == DayLoopV6([scheduled |-> st.scheduled, occupied |-> st.occupied,
                                      remaining |-> task.estimated_time,
                                      timeslots |-> st.available[task.name]], 1, task)
                  IN  TaskLoopV6([scheduled |-> r.scheduled, occupied |-> r.occupied,
                                  available |-> [st.available EXCEPT
                                                    ![task.name] = r.timeslots]],
                                 tasks, k + 1)

schedule_tasks_V6(tasks, available, occupied) ==
    TaskLoopV6([scheduled |-> <<>>, occupied |-> occupied, available |-> available],
               tasks, 1)

----------------------------------------------------------------------------
(* Inputs of a run *)

TaskCatalogue ==
    { [name |-> "report", estimated_time |-> 60, energy_level |-> "medium",
       impact |-> "high", task_type |-> "Work", deadline |-> <<At(3, 17, 0)>>],
      [name |-> "report", estimated_time |-> 30, energy_level |-> "high",
       impact |-> "very high", task_type |-> "Work", deadline |-> None],
      [name |-> "email", estimated_time |-> 45, energy_level |-> "low",
       impact |-> "low", task_type |-> "Work", deadline |-> <<At(1, 12, 0)>>],
      [name |-> "chores", estimated_time |-> 90, energy_level |-> "low",
       impact |-> "very high", task_type |-> "Personal", deadline |-> None] }

\* Task ids are unique; the model numbers the tasks in the order fetched.
WithIds(s) == [i \in DOMAIN s |-> [id |-> i] @@ s[i]]

TaskLists == UNION { [1..n -> TaskCatalogue] : n \in 1..MaxTasks }

\* One window 09:00 - 10:30 on today's weekday.
TemplateSingle ==
    << [day_name |-> 0, start_time |-> H(9, 0), end_time |-> H(10, 30),
        task_type |-> "Work", energy |-> 8] >>

\* Two adjoining windows today, the later one in the earlier row, and a
\* personal window tomorrow.
TemplateAdjoining ==
    << [day_name |-> 0, start_time |-> H(9, 30), end_time |-> H(10, 30),
        task_type |-> "Work", energy |-> 5],
       [day_name |-> 0, start_time |-> H(9, 0), end_time |-> H(9, 30),
        task_type |-> "Work", energy |-> 8],
       [day_name |-> 1, start_time |-> H(10, 0), end_time |-> H(11, 0),
        task_type |-> "Personal", energy |-> 2] >>

Templates == {TemplateSingle, TemplateAdjoining}

OccupiedCatalogue ==
    { <<H(9, 20), H(9, 40)>>, <<H(9, 30), H(10, 0)>>, <<H(8, 30), H(9, 5)>> }

OccupiedLists == UNION { [1..n -> OccupiedCatalogue] : n \in 0..MaxOccupied }

NowSet == { H(8, 0), H(9, 45) }

\* The template sheet: one of the templates, a sheet without rows, or a
\* sheet that cannot be reached.
Sheets ==
    { [reachable |-> TRUE, rows |-> t] : t \in Templates \cup {<<>>} }
    \cup { [reachable |-> FALSE, rows |-> <<>>] }

\* The events a previous run left in the calendar: none, or one for task 1.
RunEvents ==
    { {}, { [id |-> 1, task_id |-> 1, start |-> H(9, 0), end |-> H(9, 30)] } }

\* The calendar: reachable and holding some events of the scheduler, or not
\* reachable.
Calendars ==
    { [reachable |-> TRUE, events |-> e] : e \in RunEvents }
    \cup { [reachable |-> FALSE, events |-> {}] }

----------------------------------------------------------------------------
(* Values of the variables a specification does not use *)

NoDirectCall ==
    /\ window = None
    /\ window_occupied = <<>>
    /\ fully_available = <<>>
    /\ scoring_task = None
    /\ task_score = None

NoExternals ==
    /\ sheet = None
    /\ calendar = <<>>
    /\ task_events = <<>>
    /\ writes = <<>>
    /\ raised = NotRaised
    /\ failing = {}
    /\ round = 0

NoWeather ==
    /\ weather_cache = None
    /\ weather_api = None
    /\ weather_data = <<>>
    /\ hot_weather = FALSE
    /\ sheet_id = NoSheet

\* assistantV6 is not running.
NoV6 == calendar_events = <<>>

\* __main__ is not running.
NoRun ==
    /\ parsed_tasks = <<>>
    /\ energy_profile = <<>>
    /\ occupied_slots = <<>>
    /\ scored_tasks = <<>>
    /\ available_timeslots = <<>>
    /\ scheduled_tasks = <<>>
    /\ merged_scheduled_tasks = <<>>
    /\ report = <<>>
    /\ gi = 1
    /\ ti = 1
    /\ di = 1
    /\ si = 1
    /\ remaining_time = 0
    /\ scheduled_parts = <<>>

----------------------------------------------------------------------------
(* The run *)

TaskAt(k) == scored_tasks[k][1]

\* task_slots and, for the day entry di, sorted_slots.
TaskSlots == available_timeslots[TaskAt(ti).id]

\* Mutant of SortedSlots: the slots of the day in the order stored.
UnsortedSlots == TaskSlots[di][2]

SortedSlots == SortByStart(TaskSlots[di][2])

\* Mutant of BeginTask: a task left with time to place ends the loop over the
\* tasks.
BeginTaskOrStop(k) ==
    LET n == IF remaining_time > 0 THEN Len(scored_tasks) + 1 ELSE k
    IN  /\ ti' = n
        /\ di' = 1
        /\ si' = 1
        /\ scheduled_parts' = <<>>
        /\ remaining_time' = IF n <= Len(scored_tasks) THEN scored_tasks[n][1].estimated_time ELSE 0

\* The values the loop variables take when schedule_tasks turns to task k.
BeginTask(k) ==
    /\ ti' = k
    /\ di' = 1
    /\ si' = 1
    /\ scheduled_parts' = <<>>
    /\ remaining_time' = IF k <= Len(scored_tasks) THEN TaskAt(k).estimated_time ELSE 0

\* The loops move on to the next slot, or to the first slot of the next day.
NextSlot ==
    IF si < Len(SortedSlots)
    THEN si' = si + 1 /\ di' = di
    ELSE si' = 1 /\ di' = di + 1

\* The state after parsed_tasks = parse_personal_and_work_tasks() found tasks.
Init ==
    /\ now \in NowSet
    /\ parsed_tasks \in { WithIds(s) : s \in TaskLists }
    /\ energy_profile = <<>>
    /\ occupied_slots = <<>>
    /\ scored_tasks = <<>>
    /\ available_timeslots = <<>>
    /\ scheduled_tasks = <<>>
    /\ merged_scheduled_tasks = <<>>
    /\ report = <<>>
    /\ pc = "fetch_profile"
    /\ gi = 1
    /\ ti = 1
    /\ di = 1
    /\ si = 1
    /\ remaining_time = 0
    /\ scheduled_parts = <<>>
    /\ intervals = <<>>
    /\ merged_intervals = <<>>
    /\ NoDirectCall
    /\ sheet \in Sheets
    /\ calendar \in Calendars
    /\ task_events = <<>>
    /\ writes = <<>>
    /\ raised = NotRaised
    /\ failing = {}
    /\ round = 0
    /\ NoWeather
    /\ NoV6

\* energy_profile = fetch_working_hours_and_energy_levels(...) and
\* "if not energy_profile: raise ValueError(...)", caught at the end of
\* __main__.
FetchProfile ==
    /\ pc = "fetch_profile"
    /\ energy_profile' = fetch_working_hours_and_energy_levels(sheet)
    /\ IF energy_profile' = <<>>
       THEN raised' = "ValueError" /\ pc' = "failed"
       ELSE raised' = raised /\ pc' = "fetch_calendar"
    /\ UNCHANGED <<now, parsed_tasks, occupied_slots, scored_tasks, available_timeslots,
                   scheduled_tasks, merged_scheduled_tasks, report, gi, ti, di, si,
                   remaining_time, scheduled_parts, intervals, merged_intervals, callVars,
                   sheet, calendar, task_events, writes, failing, round>>
    /\ UNCHANGED weatherVars
    /\ UNCHANGED calendar_events

\* meetings, tasks, ..., occupied_slots = fetch_calendar_events(calendar_service).
\* The function has no try / except: a failing request ends the run in the
\* except clause of __main__.  The intervals of the other events come back
\* in occupied_slots.
FetchCalendarEvents ==
    /\ pc = "fetch_calendar"
    /\ IF calendar.reachable
       THEN /\ occupied_slots' \in OccupiedLists
            /\ \E listing \in Listings(calendar.events) : task_events' = TasksOf(listing)
            /\ raised' = raised
            /\ pc' = "merge_occupied"
       ELSE /\ raised' = "HttpError"
            /\ pc' = "failed"
            /\ UNCHANGED <<occupied_slots, task_events>>
    /\ UNCHANGED <<now, parsed_tasks, energy_profile, scored_tasks, available_timeslots,
                   scheduled_tasks, merged_scheduled_tasks, report, gi, ti, di, si,
                   remaining_time, scheduled_parts, intervals, merged_intervals, callVars,
                   sheet, calendar, writes, failing, round>>
    /\ UNCHANGED weatherVars
    /\ UNCHANGED calendar_events

\* occupied_slots = merge_overlapping_intervals(occupied_slots)
MergeOccupied ==
    /\ pc = "merge_occupied"
    /\ occupied_slots' = merge_overlapping_intervals(occupied_slots)
    /\ pc' = "score"
    /\ UNCHANGED <<now, parsed_tasks, energy_profile, scored_tasks, available_timeslots,
                   scheduled_tasks, merged_scheduled_tasks, report, gi, ti, di, si,
                   remaining_time, scheduled_parts, intervals, merged_intervals, callVars,
                   externalVars>>
    /\ UNCHANGED weatherVars
    /\ UNCHANGED calendar_events

\* scored_tasks = [...]; scored_tasks.sort(key=lambda x: x[1], reverse=True)
ScoreAndSort ==
    /\ pc = "score"
    /\ scored_tasks' = ScoredTasks(parsed_tasks, now)
    /\ pc' = "timeslots"
    /\ gi' = 1
    /\ UNCHANGED <<now, parsed_tasks, energy_profile, occupied_slots, available_timeslots,
                   scheduled_tasks, merged_scheduled_tasks, report, ti, di, si,
                   remaining_time, scheduled_parts, intervals, merged_intervals, callVars,
                   externalVars>>
    /\ UNCHANGED weatherVars
    /\ UNCHANGED calendar_events

\* One iteration of "for task, _ in scored_tasks" that fills available_timeslots.
GenerateTimeslots ==
    /\ pc = "timeslots"
    /\ gi <= Len(scored_tasks)
    /\ LET task == TaskAt(gi)
           timeslots == get_available_timeslots(energy_profile, occupied_slots, task, now)
       IN  available_timeslots' =
               IF timeslots # <<>>
               THEN [id \in DOMAIN available_timeslots \cup {task.id} |->
                        IF id = task.id THEN timeslots ELSE available_timeslots[id]]
               ELSE available_timeslots
    /\ gi' = gi + 1
    /\ UNCHANGED <<now, parsed_tasks, energy_profile, occupied_slots, scored_tasks,
                   scheduled_tasks, merged_scheduled_tasks, report, pc, ti, di, si,
                   remaining_time, scheduled_parts, intervals, merged_intervals, callVars,
                   externalVars>>
    /\ UNCHANGED weatherVars
    /\ UNCHANGED calendar_events

\* The call of schedule_tasks.
CallScheduleTasks ==
    /\ pc = "timeslots"
    /\ gi > Len(scored_tasks)
    /\ pc' = "schedule"
    /\ BeginTask(1)
    /\ UNCHANGED <<now, parsed_tasks, energy_profile, occupied_slots, scored_tasks,
                   available_timeslots, scheduled_tasks, merged_scheduled_tasks, report,
                   gi, intervals, merged_intervals, callVars,
                   externalVars>>
    /\ UNCHANGED weatherVars
    /\ UNCHANGED calendar_events

\* "if task_id not in available_timeslots: ... continue"
NoTimeslots ==
    /\ pc = "schedule"
    /\ ti <= Len(scored_tasks)
    /\ TaskAt(ti).id \notin DOMAIN available_timeslots
    /\ report' = [id \in DOMAIN report \cup {TaskAt(ti).id} |->
                    IF id = TaskAt(ti).id
                    THEN [no_timeslots |-> TRUE, parts |-> 0,
                          remaining |-> TaskAt(ti).estimated_time]
                    ELSE report[id]]
    /\ BeginTask(ti + 1)
    /\ UNCHANGED <<now, parsed_tasks, energy_profile, occupied_slots, scored_tasks,
                   available_timeslots, scheduled_tasks, merged_scheduled_tasks,
                   pc, gi, intervals, merged_intervals, callVars,
                   externalVars>>
    /\ UNCHANGED weatherVars
    /\ UNCHANGED calendar_events

\* The task being placed has a slot left to look at.
AtSlot ==
    /\ pc = "schedule"
    /\ ti <= Len(scored_tasks)
    /\ TaskAt(ti).id \in DOMAIN available_timeslots
    /\ remaining_time > 0
    /\ di <= Len(TaskSlots)

\* "continue": the slot is empty or conflicts with an occupied interval.
SkipSlot ==
    /\ AtSlot
    /\ LET slot_start == SortedSlots[si][1]
           slot_end == SortedSlots[si][2]
           available_time == slot_end - slot_start
       IN  available_time <= 0 \/ Conflicts(slot_start, slot_end, occupied_slots)
    /\ NextSlot
    /\ UNCHANGED <<now, parsed_tasks, energy_profile, occupied_slots, scored_tasks,
                   available_timeslots, scheduled_tasks, merged_scheduled_tasks, report,
                   pc, gi, ti, remaining_time, scheduled_parts, intervals,
                   merged_intervals, callVars,
                   externalVars>>
    /\ UNCHANGED weatherVars
    /\ UNCHANGED calendar_events

\* "if available_time >= remaining_time": the rest of the task fits the slot.
ScheduleInOneSlot ==
    /\ AtSlot
    /\ LET slot_start == SortedSlots[si][1]
           slot_end == SortedSlots[si][2]
           available_time == slot_end - slot_start
           task_start == slot_start
           task_end == slot_start + remaining_time
       IN  /\ available_time > 0
           /\ ~Conflicts(slot_start, slot_end, occupied_slots)
           /\ available_time >= remaining_time
           /\ scheduled_parts' = Append(scheduled_parts, <<task_start, task_end>>)
           /\ occupied_slots' = CommitPart(occupied_slots, task_start, task_end)
    /\ remaining_time' = 0
    /\ UNCHANGED <<now, parsed_tasks, energy_profile, scored_tasks, available_timeslots,
                   scheduled_tasks, merged_scheduled_tasks, report, pc, gi, ti, di, si,
                   intervals, merged_intervals, callVars,
                   externalVars>>
    /\ UNCHANGED weatherVars
    /\ UNCHANGED calendar_events

\* "else": the slot is used whole and the task goes on in the next slot.
SplitAcrossSlots ==
    /\ AtSlot
    /\ LET slot_start == SortedSlots[si][1]
           slot_end == SortedSlots[si][2]
           available_time == slot_end - slot_start
           task_start == slot_start
           task_end == slot_end
       IN  /\ available_time > 0
           /\ ~Conflicts(slot_start, slot_end, occupied_slots)
           /\ available_time < remaining_time
           /\ scheduled_parts' = Append(scheduled_parts, <<task_start, task_end>>)
           /\ occupied_slots' = CommitPart(occupied_slots, task_start, task_end)
           /\ remaining_time' = remaining_time - available_time
    /\ NextSlot
    /\ UNCHANGED <<now, parsed_tasks, energy_profile, scored_tasks, available_timeslots,
                   scheduled_tasks, merged_scheduled_tasks, report, pc, gi, ti,
                   intervals, merged_intervals, callVars,
                   externalVars>>
    /\ UNCHANGED weatherVars
    /\ UNCHANGED calendar_events

\* The loops over the slots are over: the parts go to scheduled_tasks and the
\* outcome is printed.
FinishTask ==
    /\ pc = "schedule"
    /\ ti <= Len(scored_tasks)
    /\ TaskAt(ti).id \in DOMAIN available_timeslots
    /\ remaining_time = 0 \/ di > Len(TaskSlots)
    /\ scheduled_tasks' = AddScheduledParts(scheduled_tasks, scheduled_parts, TaskAt(ti))
    /\ report' = [id \in DOMAIN report \cup {TaskAt(ti).id} |->
                    IF id = TaskAt(ti).id
                    THEN [no_timeslots |-> FALSE, parts |-> Len(scheduled_parts),
                          remaining |-> remaining_time]
                    ELSE report[id]]
    /\ BeginTask(ti + 1)
    /\ UNCHANGED <<now, parsed_tasks, energy_profile, occupied_slots, scored_tasks,
                   available_timeslots, merged_scheduled_tasks, pc, gi,
                   intervals, merged_intervals, callVars,
                   externalVars>>
    /\ UNCHANGED weatherVars
    /\ UNCHANGED calendar_events

\* "return scheduled_tasks"
ReturnScheduledTasks ==
    /\ pc = "schedule"
    /\ ti > Len(scored_tasks)
    /\ pc' = "merge_scheduled"
    /\ UNCHANGED <<now, parsed_tasks, energy_profile, occupied_slots, scored_tasks,
                   available_timeslots, scheduled_tasks, merged_scheduled_tasks, report,
                   gi, ti, di, si, remaining_time, scheduled_parts, intervals,
                   merged_intervals, callVars,
                   externalVars>>
    /\ UNCHANGED weatherVars
    /\ UNCHANGED calendar_events

\* merged_scheduled_tasks = merge_scheduled_tasks(scheduled_tasks)
MergeScheduledTasks ==
    /\ pc = "merge_scheduled"
    /\ LET r == merge_scheduled_tasks(scheduled_tasks, occupied_slots)
       IN  /\ merged_scheduled_tasks' = r.merged
           /\ scheduled_tasks' = r.list
           /\ occupied_slots' = r.occupied
    /\ pc' = "manage_calendar"
    /\ UNCHANGED <<now, parsed_tasks, energy_profile, scored_tasks, available_timeslots,
                   report, gi, ti, di, si, remaining_time, scheduled_parts, intervals,
                   merged_intervals, callVars,
                   externalVars>>
    /\ UNCHANGED weatherVars
    /\ UNCHANGED calendar_events

\* scheduled_task_dict and the loop that calls manage_calendar_events; an
\* exception ends the run in the except clause of __main__.
ManageCalendarEvents ==
    /\ pc = "manage_calendar"
    /\ round' = round + 1
    /\ LET st == ManageCalendar([events |-> calendar.events, writes |-> writes,
                                 raised |-> NotRaised],
                                merged_scheduled_tasks, task_events, parsed_tasks,
                                failing, round')
       IN  /\ calendar' = [calendar EXCEPT !.events = st.events]
           /\ writes' = st.writes
           /\ raised' = st.raised
           /\ pc' = IF st.raised = NotRaised THEN "done" ELSE "failed"
    /\ UNCHANGED <<now, parsed_tasks, energy_profile, occupied_slots, scored_tasks,
                   available_timeslots, scheduled_tasks, merged_scheduled_tasks, report,
                   gi, ti, di, si, remaining_time, scheduled_parts, intervals,
                   merged_intervals, callVars, sheet, task_events, failing>>
    /\ UNCHANGED weatherVars
    /\ UNCHANGED calendar_events

Next ==
    \/ FetchProfile
    \/ FetchCalendarEvents
    \/ MergeOccupied
    \/ ScoreAndSort
    \/ GenerateTimeslots
    \/ CallScheduleTasks
    \/ NoTimeslots
    \/ SkipSlot
    \/ ScheduleInOneSlot
    \/ SplitAcrossSlots
    \/ FinishTask
    \/ ReturnScheduledTasks
    \/ MergeScheduledTasks
    \/ ManageCalendarEvents

Spec == Init /\ [][Next]_vars

----------------------------------------------------------------------------
(* A direct call of merge_overlapping_intervals on an arbitrary list *)

MergeTimes == { H(9, 0), H(9, 30), H(10, 0), H(10, 30) }
MergeIntervals == { <<a, b>> : a, b \in MergeTimes } \ { <<a, b>> \in MergeTimes \X MergeTimes : a >= b }
IntervalLists == UNION { [1..n -> MergeIntervals] : n \in 0..MaxIntervals }

InitMerge ==
    /\ now = 0
    /\ parsed_tasks = <<>>
    /\ energy_profile = <<>>
    /\ occupied_slots = <<>>
    /\ scored_tasks = <<>>
    /\ available_timeslots = <<>>
    /\ scheduled_tasks = <<>>
    /\ merged_scheduled_tasks = <<>>
    /\ report = <<>>
    /\ pc = "call_merge"
    /\ gi = 1
    /\ ti = 1
    /\ di = 1
    /\ si = 1
    /\ remaining_time = 0
    /\ scheduled_parts = <<>>
    /\ intervals \in IntervalLists
    /\ merged_intervals = <<>>
    /\ NoDirectCall
    /\ NoExternals
    /\ NoWeather
    /\ NoV6

\* merged_intervals = merge_overlapping_intervals(intervals); the call sorts
\* its argument in place.
CallMerge ==
    /\ pc = "call_merge"
    /\ merged_intervals' = merge_overlapping_intervals(intervals)
    /\ intervals' = SortByStart(intervals)
    /\ pc' = "merge_returned"
    /\ UNCHANGED <<now, parsed_tasks, energy_profile, occupied_slots, scored_tasks,
                   available_timeslots, scheduled_tasks, merged_scheduled_tasks, report,
                   gi, ti, di, si, remaining_time, scheduled_parts, callVars,
                   externalVars>>
    /\ UNCHANGED weatherVars
    /\ UNCHANGED calendar_events

NextMerge == CallMerge

SpecMerge == InitMerge /\ [][NextMerge]_vars

----------------------------------------------------------------------------
(* The subtraction of get_available_timeslots applied to one window and a  *)
(* list of occupied intervals as __main__ passes it: the result of         *)
(* merge_overlapping_intervals.                                            *)

SubtractTimes == { H(9, 0), H(9, 30), H(10, 0), H(10, 30), H(11, 0) }
SubtractIntervals == { iv \in SubtractTimes \X SubtractTimes : iv[1] < iv[2] }
SubtractOccupied ==
    { merge_overlapping_intervals(l) :
        l \in UNION { [1..n -> SubtractIntervals] : n \in 0..MaxOccupied } }

InitSubtract ==
    /\ now = 0
    /\ NoRun
    /\ pc = "call_subtract"
    /\ intervals = <<>>
    /\ merged_intervals = <<>>
    /\ window \in SubtractIntervals
    /\ window_occupied \in SubtractOccupied
    /\ fully_available = <<>>
    /\ scoring_task = None
    /\ task_score = None
    /\ NoExternals
    /\ NoWeather
    /\ NoV6

\* fully_available_parts = [(slot_start, slot_end)] and the loop over
\* occupied_slots that follows it.
CallSubtract ==
    /\ pc = "call_subtract"
    /\ fully_available' = fully_available_parts(<<window>>, window_occupied)
    /\ pc' = "subtract_returned"
    /\ UNCHANGED <<now, parsed_tasks, energy_profile, occupied_slots, scored_tasks,
                   available_timeslots, scheduled_tasks, merged_scheduled_tasks, report,
                   gi, ti, di, si, remaining_time, scheduled_parts, intervals,
                   merged_intervals, window, window_occupied, scoring_task, task_score,
                   externalVars>>
    /\ UNCHANGED weatherVars
    /\ UNCHANGED calendar_events

NextSubtract == CallSubtract

SpecSubtract == InitSubtract /\ [][NextSubtract]_vars

----------------------------------------------------------------------------
(* A direct call of calculate_task_score *)

ScoreNow == At(2, 9, 0)

\* Deadlines two days and one hour before ScoreNow, equal to it, and eight
\* hours, one day and almost three days after it.
ScoreDeadlines ==
    { None, <<At(0, 9, 0)>>, <<At(2, 8, 0)>>, <<ScoreNow>>, <<At(2, 17, 0)>>,
      <<At(3, 9, 0)>>, <<At(5, 8, 0)>> }

ScoreTasks ==
    [ id : {1}, name : {"report"}, task_type : {"Work"},
      estimated_time : {30, max_time},
      energy_level : {"low", "medium", "high"},
      impact : {"low", "medium", "high", "very high"},
      deadline : ScoreDeadlines ]

InitScore ==
    /\ now = ScoreNow
    /\ NoRun
    /\ pc = "call_score"
    /\ intervals = <<>>
    /\ merged_intervals = <<>>
    /\ window = None
    /\ window_occupied = <<>>
    /\ fully_available = <<>>
    /\ scoring_task \in ScoreTasks
    /\ task_score = None
    /\ NoExternals
    /\ NoWeather
    /\ NoV6

\* score = calculate_task_score(task)
CallScore ==
    /\ pc = "call_score"
    /\ task_score' = [urgency |-> deadline_urgency(scoring_task.deadline, now),
                      score |-> calculate_task_score(scoring_task, now)]
    /\ pc' = "score_returned"
    /\ UNCHANGED <<now, parsed_tasks, energy_profile, occupied_slots, scored_tasks,
                   available_timeslots, scheduled_tasks, merged_scheduled_tasks, report,
                   gi, ti, di, si, remaining_time, scheduled_parts, intervals,
                   merged_intervals, window, window_occupied, fully_available,
                   scoring_task, externalVars>>
    /\ UNCHANGED weatherVars
    /\ UNCHANGED calendar_events

NextScore == CallScore

SpecScore == InitScore /\ [][NextScore]_vars

----------------------------------------------------------------------------
(* manage_calendar_events called with a list of merged allocations and the *)
(* tasks fetch_calendar_events found, once per run, for MaxRounds runs     *)
(* against the same calendar.                                              *)

ManageParsedTasks ==
    WithIds(<< [name |-> "report", estimated_time |-> 60, energy_level |-> "medium",
                impact |-> "high", task_type |-> "Work", deadline |-> None],
               [name |-> "email", estimated_time |-> 30, energy_level |-> "low",
                impact |-> "low", task_type |-> "Work", deadline |-> None] >>)

\* Two parts of task 1 that do not adjoin, and one part of task 2.
AllocationCatalogue ==
    { [task_id |-> 1, task_name |-> "report", start_time |-> H(9, 0), end_time |-> H(9, 30)],
      [task_id |-> 1, task_name |-> "report", start_time |-> H(10, 0), end_time |-> H(10, 30)],
      [task_id |-> 2, task_name |-> "email", start_time |-> H(9, 30), end_time |-> H(10, 0)] }

\* Lists as merge_scheduled_tasks returns them: sorted by name and start.
AllocationLists ==
    { SortByKey(l) :
        l \in { x \in UNION { [1..n -> AllocationCatalogue] : n \in 1..MaxAllocations } :
                  \A i, j \in DOMAIN x : i # j => x[i] # x[j] } }

StoredEvent(id, task_id, start, end) ==
    [id |-> id, task_id |-> task_id, start |-> start, end |-> end]

\* What earlier runs left in the calendar: at most one event per task.
ManageStores ==
    { {},
      { StoredEvent(1, 1, H(9, 0), H(9, 30)) },
      { StoredEvent(1, 1, H(11, 0), H(11, 30)) },
      { StoredEvent(1, 2, H(11, 0), H(11, 30)) },
      { StoredEvent(1, 1, H(9, 0), H(9, 30)), StoredEvent(2, 2, H(11, 0), H(11, 30)) },
      { StoredEvent(1, 1, H(11, 0), H(11, 30)), StoredEvent(2, 2, H(11, 0), H(11, 30)) } }

InitManage ==
    /\ now = 0
    /\ parsed_tasks = ManageParsedTasks
    /\ energy_profile = <<>>
    /\ occupied_slots = <<>>
    /\ scored_tasks = <<>>
    /\ available_timeslots = <<>>
    /\ scheduled_tasks = <<>>
    /\ merged_scheduled_tasks \in AllocationLists
    /\ report = <<>>
    /\ pc = "fetch_tasks"
    /\ gi = 1
    /\ ti = 1
    /\ di = 1
    /\ si = 1
    /\ remaining_time = 0
    /\ scheduled_parts = <<>>
    /\ intervals = <<>>
    /\ merged_intervals = <<>>
    /\ NoDirectCall
    /\ sheet = None
    /\ calendar \in { [reachable |-> TRUE, events |-> e] : e \in ManageStores }
    /\ task_events = <<>>
    /\ writes = <<>>
    /\ raised = NotRaised
    /\ failing \in SUBSET DOMAIN merged_scheduled_tasks
    /\ round = 0
    /\ NoWeather
    /\ NoV6

\* The second loop of fetch_calendar_events over the events listed.
FetchTasks ==
    /\ pc = "fetch_tasks"
    /\ \E listing \in Listings(calendar.events) : task_events' = TasksOf(listing)
    /\ pc' = "manage"
    /\ UNCHANGED <<now, parsed_tasks, energy_profile, occupied_slots, scored_tasks,
                   available_timeslots, scheduled_tasks, merged_scheduled_tasks, report,
                   gi, ti, di, si, remaining_time, scheduled_parts, intervals,
                   merged_intervals, callVars, sheet, calendar, writes, raised, failing,
                   round>>
    /\ UNCHANGED weatherVars
    /\ UNCHANGED calendar_events

\* manage_calendar_events(calendar_service, merged_scheduled_tasks, tasks)
CallManage ==
    /\ pc = "manage"
    /\ round' = round + 1
    /\ LET st == manage_calendar_events([events |-> calendar.events, writes |-> writes,
                                         raised |-> NotRaised],
                                        merged_scheduled_tasks, task_events, parsed_tasks,
                                        failing, round')
       IN  /\ calendar' = [calendar EXCEPT !.events = st.events]
           /\ writes' = st.writes
           /\ raised' = st.raised
           /\ pc' = IF st.raised # NotRaised THEN "failed"
                    ELSE IF round' < MaxRounds THEN "fetch_tasks" ELSE "done"
    /\ UNCHANGED <<now, parsed_tasks, energy_profile, occupied_slots, scored_tasks,
                   available_timeslots, scheduled_tasks, merged_scheduled_tasks, report,
                   gi, ti, di, si, remaining_time, scheduled_parts, intervals,
                   merged_intervals, callVars, sheet, task_events, failing>>
    /\ UNCHANGED weatherVars
    /\ UNCHANGED calendar_events

NextManage ==
    \/ FetchTasks
    \/ CallManage

SpecManage == InitManage /\ [][NextManage]_vars

----------------------------------------------------------------------------
(* The start of __main__: the weather lookup and the choice of template *)

Temperatures == { Number(22), Number(23) }

ReadingLists(values) ==
    UNION { { [k \in 1..n |-> [time |-> k, feelsLikeTemperature |-> f[k]]] :
                f \in [1..n -> values] } : n \in 0..MaxReadings }

WeatherNow == H(8, 0)

\* No file, a file that cannot be read, a file written less than three hours
\* ago, a file written three hours ago.
WeatherCaches ==
    { NoCache,
      [exists |-> TRUE, readable |-> FALSE, timestamp |-> 0, weather_data |-> <<>>] }
    \cup { [exists |-> TRUE, readable |-> TRUE, timestamp |-> t, weather_data |-> d] :
             t \in { WeatherNow - CacheLifetime, WeatherNow - CacheLifetime + 1 },
             d \in ReadingLists(Temperatures \cup {DataNotAvailable}) }

WeatherServices ==
    { [outcome |-> o, features |-> FALSE, timeSeries |-> <<>>] :
        o \in {"HTTPError", "RequestException", "ok"} }
    \cup { [outcome |-> "ok", features |-> TRUE, timeSeries |-> d] :
             d \in ReadingLists(Temperatures \cup {Null}) }

\* The two spreadsheets.
Spreadsheets ==
    [id \in {standard_sheet_id, hot_weather_sheet_id} |->
        [reachable |-> TRUE,
         rows |-> IF id = standard_sheet_id THEN TemplateSingle ELSE TemplateAdjoining]]

InitWeather ==
    /\ now = WeatherNow
    /\ NoRun
    /\ pc = "get_weather"
    /\ intervals = <<>>
    /\ merged_intervals = <<>>
    /\ NoDirectCall
    /\ sheet = None
    /\ calendar = <<>>
    /\ task_events = <<>>
    /\ writes = <<>>
    /\ raised = NotRaised
    /\ failing = {}
    /\ round = 0
    /\ weather_cache \in WeatherCaches
    /\ weather_api \in WeatherServices
    /\ weather_data = <<>>
    /\ hot_weather = FALSE
    /\ sheet_id = NoSheet
    /\ NoV6

\* weather_data = get_weather(); an exception ends the run in the except
\* clause of __main__.
GetWeather ==
    /\ pc = "get_weather"
    /\ LET r == get_weather(weather_cache, weather_api, now)
       IN  /\ weather_data' = r.weather_data
           /\ weather_cache' = r.cache
           /\ raised' = r.raised
           /\ pc' = IF r.raised = NotRaised THEN "weather_analysis" ELSE "failed"
    /\ UNCHANGED <<now, parsed_tasks, energy_profile, occupied_slots, scored_tasks,
                   available_timeslots, scheduled_tasks, merged_scheduled_tasks, report,
                   gi, ti, di, si, remaining_time, scheduled_parts, intervals,
                   merged_intervals, callVars, sheet, calendar, task_events, writes,
                   failing, round, weather_api, hot_weather, sheet_id>>
    /\ UNCHANGED calendar_events

\* hot_weather = weather_analysis(weather_data)
WeatherAnalysis ==
    /\ pc = "weather_analysis"
    /\ hot_weather' = weather_analysis(weather_data, threshold_temp)
    /\ pc' = "fetch_profile"
    /\ UNCHANGED <<now, parsed_tasks, energy_profile, occupied_slots, scored_tasks,
                   available_timeslots, scheduled_tasks, merged_scheduled_tasks, report,
                   gi, ti, di, si, remaining_time, scheduled_parts, intervals,
                   merged_intervals, callVars, externalVars, weather_cache, weather_api,
                   weather_data, sheet_id>>
    /\ UNCHANGED calendar_events

\* energy_profile = fetch_working_hours_and_energy_levels(sheets_service,
\* weather_analysis=hot_weather)
FetchProfileFor ==
    /\ pc = "fetch_profile"
    /\ sheet_id' = ChooseSheet(hot_weather)
    /\ sheet' = Spreadsheets[sheet_id']
    /\ energy_profile' = fetch_working_hours_and_energy_levels(sheet')
    /\ pc' = "fetch_calendar"
    /\ UNCHANGED <<now, parsed_tasks, occupied_slots, scored_tasks,
                   available_timeslots, scheduled_tasks, merged_scheduled_tasks, report,
                   gi, ti, di, si, remaining_time, scheduled_parts, intervals,
                   merged_intervals, callVars, calendar, task_events, writes, raised,
                   failing, round, weather_cache, weather_api, weather_data, hot_weather>>
    /\ UNCHANGED calendar_events

NextWeather ==
    \/ GetWeather
    \/ WeatherAnalysis
    \/ FetchProfileFor

SpecWeather == InitWeather /\ [][NextWeather]_vars

----------------------------------------------------------------------------
(* A direct call of fetch_working_hours_and_energy_levels, of              *)
(* virtual_assistant.py and of assistantV4.py, on a template with          *)
(* overnight rows *)

MaxRows == 2

\* Rows for today's weekday and for the weekday six days on: a daytime
\* window, "23:00 - 01:00" and "23:00 - 00:00".
ProfileRows ==
    { [day_name |-> d, start_time |-> r[1], end_time |-> r[2],
       task_type |-> r[3], energy |-> r[4]] :
        d \in {0, 6},
        r \in { <<H(9, 0), H(10, 30), "Work", 8>>,
                <<H(23, 0), H(1, 0), "Work", 5>>,
                <<H(23, 0), H(1, 0), "Personal", 2>>,
                <<H(23, 0), H(0, 0), "Personal", 8>> } }

ProfileRowLists == UNION { [1..n -> ProfileRows] : n \in 0..MaxRows }

InitProfile ==
    /\ now = 0
    /\ NoRun
    /\ pc = "call_fetch_profile"
    /\ intervals = <<>>
    /\ merged_intervals = <<>>
    /\ NoDirectCall
    /\ sheet \in { [reachable |-> TRUE, rows |-> r] : r \in ProfileRowLists }
    /\ calendar = <<>>
    /\ task_events = <<>>
    /\ writes = <<>>
    /\ raised = NotRaised
    /\ failing = {}
    /\ round = 0
    /\ NoWeather
    /\ NoV6

\* virtual_assistant.fetch_working_hours_and_energy_levels(sheets_service)
CallFetchProfile ==
    /\ pc = "call_fetch_profile"
    /\ energy_profile' = fetch_working_hours_and_energy_levels(sheet)
    /\ pc' = "profile_returned"
    /\ UNCHANGED <<now, parsed_tasks, occupied_slots, scored_tasks,
                   available_timeslots, scheduled_tasks, merged_scheduled_tasks, report,
                   gi, ti, di, si, remaining_time, scheduled_parts, intervals,
                   merged_intervals, callVars, externalVars, weatherVars>>
    /\ UNCHANGED calendar_events

\* assistantV4.fetch_working_hours_and_energy_levels(sheets_service)
CallFetchProfileV4 ==
    /\ pc = "call_fetch_profile"
    /\ energy_profile' = fetch_working_hours_and_energy_levels_V4(sheet)
    /\ pc' = "profile_V4_returned"
    /\ UNCHANGED <<now, parsed_tasks, occupied_slots, scored_tasks,
                   available_timeslots, scheduled_tasks, merged_scheduled_tasks, report,
                   gi, ti, di, si, remaining_time, scheduled_parts, intervals,
                   merged_intervals, callVars, externalVars, weatherVars>>
    /\ UNCHANGED calendar_events

NextProfile ==
    \/ CallFetchProfile
    \/ CallFetchProfileV4

SpecProfile == InitProfile /\ [][NextProfile]_vars

----------------------------------------------------------------------------
(* A direct call of fetch_calendar_events on a calendar with meetings,     *)
(* travel and screen-free events and an event of the scheduler             *)

MaxEvents == 3

Fetched(id, travel, screen_free, by_scheduler, task_id, parent, start, end, parsable) ==
    [id |-> id, travel |-> travel, screen_free |-> screen_free,
     by_scheduler |-> by_scheduler, task_id |-> task_id, parent |-> parent,
     start |-> start, end |-> end, parsable |-> parsable]

\* A meeting; its travel and screen-free events as add_travel_event and
\* add_rest_period write them; a meeting named 'Travel budget review'; a
\* task placed by an earlier run; a travel event whose meeting is no longer
\* listed; an event whose times cannot be parsed.
FetchedCatalogue ==
    { Fetched("m1", FALSE, FALSE, FALSE, 0, NoParent, H(9, 0), H(9, 30), TRUE),
      Fetched("t1", TRUE, FALSE, FALSE, 0, "m1", H(8, 30), H(9, 0), TRUE),
      Fetched("s1", FALSE, TRUE, FALSE, 0, "m1", H(9, 30), H(9, 45), TRUE),
      Fetched("m2", TRUE, FALSE, FALSE, 0, NoParent, H(10, 0), H(10, 30), TRUE),
      Fetched("e1", FALSE, FALSE, TRUE, 1, NoParent, H(11, 0), H(11, 30), TRUE),
      Fetched("t9", TRUE, FALSE, FALSE, 0, "m9", H(12, 0), H(12, 30), TRUE),
      Fetched("m3", FALSE, FALSE, FALSE, 0, NoParent, H(13, 0), H(14, 0), FALSE) }

FetchedSets == { s \in SUBSET FetchedCatalogue : Cardinality(s) <= MaxEvents }

InitFetch ==
    /\ now = 0
    /\ NoRun
    /\ pc = "call_fetch_calendar_events"
    /\ intervals = <<>>
    /\ merged_intervals = <<>>
    /\ NoDirectCall
    /\ sheet = None
    /\ calendar \in { [reachable |-> TRUE, events |-> s] : s \in FetchedSets }
    /\ task_events = <<>>
    /\ writes = <<>>
    /\ raised = NotRaised
    /\ failing = {}
    /\ round = 0
    /\ NoWeather
    /\ NoV6

\* meetings, tasks, travel_times, screen_free_times, occupied_slots =
\* fetch_calendar_events(calendar_service)
CallFetchCalendarEvents ==
    /\ pc = "call_fetch_calendar_events"
    /\ \E all_events \in Listings(calendar.events) :
           LET r == fetch_calendar_events(all_events)
           IN  /\ raised' = r.raised
               /\ occupied_slots' = IF r.raised = NotRaised THEN r.occupied_slots ELSE <<>>
               /\ task_events' = IF r.raised = NotRaised THEN r.tasks ELSE <<>>
               /\ pc' = IF r.raised = NotRaised THEN "calendar_fetched" ELSE "failed"
    /\ UNCHANGED <<now, parsed_tasks, energy_profile, scored_tasks,
                   available_timeslots, scheduled_tasks, merged_scheduled_tasks, report,
                   gi, ti, di, si, remaining_time, scheduled_parts, intervals,
                   merged_intervals, callVars, sheet, calendar, writes, failing, round,
                   weatherVars>>
    /\ UNCHANGED calendar_events

NextFetch == CallFetchCalendarEvents

SpecFetch == InitFetch /\ [][NextFetch]_vars

----------------------------------------------------------------------------
(* The run of assistantV6.py up to the return of schedule_tasks *)

V6Event(id, by_scheduler, virtual, start, end) ==
    [id |-> id, by_scheduler |-> by_scheduler, virtual |-> virtual,
     start |-> start, end |-> end]

\* Meetings in person and virtual ones, around and inside the window
\* 09:00 - 10:30, and a task placed by an earlier run.
V6Catalogue ==
    { V6Event("a", FALSE, FALSE, H(8, 30), H(11, 0)),
      V6Event("b", FALSE, TRUE, H(10, 15), H(11, 30)),
      V6Event("c", FALSE, FALSE, H(9, 30), H(10, 0)),
      V6Event("d", FALSE, TRUE, H(9, 15), H(9, 30)),
      V6Event("e", TRUE, FALSE, H(9, 0), H(9, 30)) }

V6EventSets == { s \in SUBSET V6Catalogue : Cardinality(s) <= MaxEvents }

\* The state after energy_profile = fetch_working_hours_and_energy_levels(...).
InitV6 ==
    /\ now = H(8, 0)
    /\ parsed_tasks \in { WithIds(s) : s \in TaskLists }
    /\ sheet \in { [reachable |-> TRUE, rows |-> t] : t \in Templates }
    /\ energy_profile = fetch_working_hours_and_energy_levels(sheet)
    /\ occupied_slots = <<>>
    /\ scored_tasks = <<>>
    /\ available_timeslots = <<>>
    /\ scheduled_tasks = <<>>
    /\ merged_scheduled_tasks = <<>>
    /\ report = <<>>
    /\ pc = "V6_fetch_calendar"
    /\ gi = 1
    /\ ti = 1
    /\ di = 1
    /\ si = 1
    /\ remaining_time = 0
    /\ scheduled_parts = <<>>
    /\ intervals = <<>>
    /\ merged_intervals = <<>>
    /\ NoDirectCall
    /\ calendar \in { [reachable |-> TRUE, events |-> s] : s \in V6EventSets }
    /\ task_events = <<>>
    /\ writes = <<>>
    /\ raised = NotRaised
    /\ failing = {}
    /\ round = 0
    /\ NoWeather
    /\ calendar_events = <<>>

\* calendar_events = fetch_calendar_events(calendar_service)
V6FetchCalendarEvents ==
    /\ pc = "V6_fetch_calendar"
    /\ \E items \in Listings(calendar.events) :
           calendar_events' = fetch_calendar_events_V6(items)
    /\ pc' = "V6_handle_meetings"
    /\ UNCHANGED <<now, parsed_tasks, energy_profile, occupied_slots, scored_tasks,
                   available_timeslots, scheduled_tasks, merged_scheduled_tasks, report,
                   gi, ti, di, si, remaining_time, scheduled_parts, intervals,
                   merged_intervals, callVars, externalVars, weatherVars>>

\* occupied_slots = [], the loop that calls handle_meeting_with_location and
\* occupied_slots = merge_overlapping_intervals(occupied_slots)
V6HandleMeetings ==
    /\ pc = "V6_handle_meetings"
    /\ occupied_slots' = merge_overlapping_intervals(HandleMeetings(<<>>, calendar_events))
    /\ pc' = "V6_timeslots"
    /\ UNCHANGED <<now, parsed_tasks, energy_profile, scored_tasks,
                   available_timeslots, scheduled_tasks, merged_scheduled_tasks, report,
                   gi, ti, di, si, remaining_time, scheduled_parts, intervals,
                   merged_intervals, callVars, externalVars, weatherVars, calendar_events>>

\* scored_tasks and the loop "available_timeslots[task['name']] = timeslots":
\* the entry of a name is the one of the last task with that name.
V6GenerateTimeslots ==
    /\ pc = "V6_timeslots"
    /\ scored_tasks' = ScoredTasks(parsed_tasks, now)
    /\ available_timeslots' =
           [name \in { scored_tasks'[k][1].name : k \in DOMAIN scored_tasks' } |->
               LET last == CHOOSE k \in DOMAIN scored_tasks' :
                               /\ scored_tasks'[k][1].name = name
                               /\ \A j \in DOMAIN scored_tasks' :
                                      scored_tasks'[j][1].name = name => j <= k
               IN  get_available_timeslots_V6(energy_profile, calendar_events,
                                              scored_tasks'[last][1], now)]
    /\ pc' = "V6_schedule"
    /\ UNCHANGED <<now, parsed_tasks, energy_profile, occupied_slots,
                   scheduled_tasks, merged_scheduled_tasks, report,
                   gi, ti, di, si, remaining_time, scheduled_parts, intervals,
                   merged_intervals, callVars, externalVars, weatherVars, calendar_events>>

\* scheduled_tasks = schedule_tasks([task for task, _ in scored_tasks],
\* available_timeslots, occupied_slots)
V6ScheduleTasks ==
    /\ pc = "V6_schedule"
    /\ LET r == schedule_tasks_V6([k \in DOMAIN scored_tasks |-> scored_tasks[k][1]],
                                  available_timeslots, occupied_slots)
       IN  /\ scheduled_tasks' = r.scheduled
           /\ occupied_slots' = r.occupied
           /\ available_timeslots' = r.available
    /\ pc' = "V6_scheduled"
    /\ UNCHANGED <<now, parsed_tasks, energy_profile, scored_tasks,
                   merged_scheduled_tasks, report,
                   gi, ti, di, si, remaining_time, scheduled_parts, intervals,
                   merged_intervals, callVars, externalVars, weatherVars, calendar_events>>

NextV6 ==
    \/ V6FetchCalendarEvents
    \/ V6HandleMeetings
    \/ V6GenerateTimeslots
    \/ V6ScheduleTasks

SpecV6 == InitV6 /\ [][NextV6]_vars

----------------------------------------------------------------------------
(* Definitions shared by the properties *)

IsPrefix(s, t) == Len(s) <= Len(t) /\ SubSeq(t, 1, Len(s)) = s

PairwiseDisjoint(ivs) ==
    \A i, j \in DOMAIN ivs : i # j => ~Overlaps(ivs[i], ivs[j])

\* The parts placed so far in the run, as intervals.
PlacedParts ==
    { <<scheduled_tasks[i].start_time, scheduled_tasks[i].end_time>> : i \in DOMAIN scheduled_tasks }
    \cup Range(scheduled_parts)

\* a comes before b in priority: a higher score, or the same score and an
\* earlier place in the input (ids number the input).
Precedes(a, b) ==
    \/ ScoreLess(calculate_task_score(b, now), calculate_task_score(a, now))
    \/ /\ ScoreEq(calculate_task_score(a, now), calculate_task_score(b, now))
       /\ a.id < b.id

HasPart(id) == \E i \in DOMAIN scheduled_tasks : scheduled_tasks[i].task_id = id

RECURSIVE TotalFor(_, _)
TotalFor(entries, id) ==
    IF entries = <<>> THEN 0
    ELSE (IF entries[1].task_id = id THEN entries[1].end_time - entries[1].start_time ELSE 0)
         + TotalFor(Tail(entries), id)

----------------------------------------------------------------------------
(* C1: while schedule_tasks runs and when it has returned, the occupied    *)
(* list (the merged calendar commitments and every part placed so far) is  *)
(* pairwise non-overlapping, and every placed part is in it: no part       *)
(* overlaps another part or a commitment.                                  *)
C1_PartsDisjoint ==
    pc \in {"schedule", "merge_scheduled"} =>
        /\ PairwiseDisjoint(occupied_slots)
        /\ PlacedParts \subseteq Range(occupied_slots)

\* Parts of two tasks were placed beside a calendar commitment.
C1_Witness ==
    /\ pc = "merge_scheduled"
    /\ \E i, j \in DOMAIN scheduled_tasks : scheduled_tasks[i].task_id # scheduled_tasks[j].task_id
    /\ Len(occupied_slots) > Len(scheduled_tasks)

(* C2: a part is committed to the occupied list only for a task such that  *)
(* every task before it in priority (higher score, or equal score and      *)
(* earlier in the input) has been dealt with, and no task after it in      *)
(* priority has a part yet; the task index never goes back.                *)
C2_PriorityOrder ==
    [][ /\ pc = "schedule" => ti' >= ti
        /\ (pc = "schedule" /\ occupied_slots' # occupied_slots) =>
            /\ ti' = ti
            /\ \A k \in DOMAIN scored_tasks :
                  /\ Precedes(TaskAt(k), TaskAt(ti)) => TaskAt(k).id \in DOMAIN report
                  /\ Precedes(TaskAt(ti), TaskAt(k)) =>
                        /\ ~HasPart(TaskAt(k).id)
                        /\ TaskAt(k).id \notin DOMAIN report ]_vars

\* The second task of the input was placed first because it scores higher,
\* and both tasks have parts.
C2_Witness ==
    /\ pc = "merge_scheduled"
    /\ Len(scored_tasks) = 2
    /\ TaskAt(1).id = 2
    /\ HasPart(1) /\ HasPart(2)

\* Two tasks of equal score were placed in input order.
C2_WitnessTie ==
    /\ pc = "merge_scheduled"
    /\ Len(scored_tasks) = 2
    /\ ScoreEq(scored_tasks[1][2], scored_tasks[2][2])
    /\ TaskAt(1).id = 1
    /\ HasPart(1) /\ HasPart(2)

(* C3: a step of schedule_tasks only appends to the occupied list and to   *)
(* the list of scheduled parts: what was in them before the step is still  *)
(* there, unchanged and in the same place, after it.                       *)
C3_AppendOnly ==
    [][ pc = "schedule" =>
            /\ IsPrefix(occupied_slots, occupied_slots')
            /\ IsPrefix(scheduled_tasks, scheduled_tasks')
            /\ (ti' = ti => IsPrefix(scheduled_parts, scheduled_parts')) ]_vars

\* A later task places a part while a commitment and an earlier task's part
\* are in the occupied list.
C3_Witness ==
    /\ pc = "schedule"
    /\ scheduled_tasks # <<>>
    /\ scheduled_parts # <<>>
    /\ Len(occupied_slots) > Len(scheduled_tasks) + Len(scheduled_parts)

\* The case of C4: two tasks, a scoring higher than b, both offered the same
\* single slot, which is shorter than the two tasks together.
C4_Case(a, b) ==
    /\ Len(parsed_tasks) = 2
    /\ ScoreLess(calculate_task_score(b, now), calculate_task_score(a, now))
    /\ a.id \in DOMAIN available_timeslots
    /\ b.id \in DOMAIN available_timeslots
    /\ available_timeslots[a.id] = available_timeslots[b.id]
    /\ Len(available_timeslots[a.id]) = 1
    /\ Len(available_timeslots[a.id][1][2]) = 1
    /\ LET slot == available_timeslots[a.id][1][2][1]
       IN  slot[2] - slot[1] < a.estimated_time + b.estimated_time

(* C4: when two tasks qualify for one and the same single slot that cannot *)
(* hold both, the task with the higher score is placed at the start of the *)
(* slot and the other task gets no part and ends with remaining > 0.       *)
C4_HigherScoreWins ==
    pc = "manage_calendar" =>
        \A i, j \in DOMAIN parsed_tasks :
            LET a == parsed_tasks[i]
                b == parsed_tasks[j]
            IN  C4_Case(a, b) =>
                    LET slot == available_timeslots[a.id][1][2][1]
                    IN  /\ merged_scheduled_tasks =
                              << [task_id |-> a.id, task_name |-> a.name,
                                  start_time |-> slot[1],
                                  end_time |-> Min(slot[1] + a.estimated_time, slot[2])] >>
                        /\ report[b.id].remaining = b.estimated_time
                        /\ report[b.id].remaining > 0
                        /\ report[b.id].parts = 0

\* The case happens with the lower-scoring task first in the input.
C4_Witness ==
    /\ pc = "manage_calendar"
    /\ Len(parsed_tasks) = 2
    /\ C4_Case(parsed_tasks[2], parsed_tasks[1])

(* C5 (as claimed): after the run the Allocations of a task id add up to   *)
(* the time placed for that task (its estimate less what remained), which  *)
(* is never more than the task's estimated duration.                       *)
C5_TotalWithinEstimate ==
    pc = "manage_calendar" =>
        \A i \in DOMAIN parsed_tasks :
            LET task == parsed_tasks[i]
                total == TotalFor(merged_scheduled_tasks, task.id)
            IN  /\ total <= task.estimated_time
                /\ total = task.estimated_time - report[task.id].remaining

(* C6: every candidate slot get_available_timeslots returned lies inside   *)
(* one window of the energy profile for its day and overlaps no interval   *)
(* of the occupied list the call was given.                                *)
C6_SlotsInsideWindowAndFree ==
    pc = "timeslots" =>
        \A id \in DOMAIN available_timeslots :
            \A d \in DOMAIN available_timeslots[id] :
                LET day == available_timeslots[id][d][1]
                    slots == available_timeslots[id][d][2]
                IN  \A k \in DOMAIN slots :
                        /\ slots[k][1] < slots[k][2]
                        /\ \E w \in DOMAIN energy_profile[day] :
                              /\ energy_profile[day][w].time_range[1] <= slots[k][1]
                              /\ slots[k][2] <= energy_profile[day][w].time_range[2]
                        /\ \A o \in DOMAIN occupied_slots :
                              ~Overlaps(slots[k], occupied_slots[o])

\* A slot was cut out of a window by an occupied interval.
C6_Witness ==
    /\ pc = "timeslots"
    /\ occupied_slots # <<>>
    /\ \E id \in DOMAIN available_timeslots :
          \E d \in DOMAIN available_timeslots[id] :
              LET day == available_timeslots[id][d][1]
                  slots == available_timeslots[id][d][2]
              IN  \E k \in DOMAIN slots, w \in DOMAIN energy_profile[day] :
                      /\ energy_profile[day][w].time_range[1] <= slots[k][1]
                      /\ slots[k][2] < energy_profile[day][w].time_range[2]
                      /\ \E o \in DOMAIN occupied_slots : occupied_slots[o][1] = slots[k][2]

(* C7 (as claimed): after the run no interval is recorded twice in the     *)
(* occupied list.                                                          *)
C7_NoDuplicateOccupied ==
    pc = "manage_calendar" =>
        \A i, j \in DOMAIN occupied_slots :
            i # j => occupied_slots[i] # occupied_slots[j]

\* The scenario of C9: one 60-minute medium-energy work task, the single
\* qualifying window 09:00 - 10:30, one commitment 09:20 - 09:40.
C9_Scenario ==
    /\ Len(parsed_tasks) = 1
    /\ parsed_tasks[1].estimated_time = 60
    /\ parsed_tasks[1].energy_level = "medium"
    /\ parsed_tasks[1].task_type = "Work"
    /\ sheet = [reachable |-> TRUE, rows |-> TemplateSingle]
    /\ occupied_slots # <<>>
    /\ occupied_slots[1] = <<H(9, 20), H(9, 40)>>
    /\ \A o \in DOMAIN occupied_slots :
          o > 1 => occupied_slots[o] \in PlacedParts

(* C9 (as claimed): in the scenario the candidates are 09:00 - 09:20 and   *)
(* 09:40 - 10:30, and the run ends with the two Allocations 09:00 - 09:20  *)
(* and 09:40 - 10:20 for the task.                                         *)
C9_SplitAroundMeeting ==
    (pc = "manage_calendar" /\ C9_Scenario) =>
        /\ available_timeslots[1] = << <<0, << <<H(9, 0), H(9, 20)>>, <<H(9, 40), H(10, 30)>> >> >> >>
        /\ merged_scheduled_tasks =
              << [task_id |-> 1, task_name |-> parsed_tasks[1].name,
                  start_time |-> H(9, 0), end_time |-> H(9, 20)],
                 [task_id |-> 1, task_name |-> parsed_tasks[1].name,
                  start_time |-> H(9, 40), end_time |-> H(10, 20)] >>

----------------------------------------------------------------------------
(* merge_overlapping_intervals called on its own *)

Covered(ivs, t) == \E i \in DOMAIN ivs : ivs[i][1] <= t /\ t < ivs[i][2]

(* C10: the result of merge_overlapping_intervals is sorted by start, its  *)
(* intervals are pairwise disjoint (each starts after the one before it    *)
(* ends) and cover exactly the times the inputs cover; two inputs A, B in  *)
(* start order come back as [A, B] when B starts after A ends and as the   *)
(* one interval from A's start to the later end when B.start <= A.end.     *)
C10_MergeResult ==
    pc = "merge_returned" =>
        /\ \A i \in 1..(Len(merged_intervals) - 1) :
              merged_intervals[i][2] < merged_intervals[i + 1][1]
        /\ \A i \in DOMAIN merged_intervals : merged_intervals[i][1] < merged_intervals[i][2]
        /\ \A t \in MergeTimes : Covered(merged_intervals, t) <=> Covered(intervals, t)
        /\ Len(intervals) = 2 =>
              LET A == intervals[1]
                  B == intervals[2]
              IN  IF B[1] > A[2]
                  THEN merged_intervals = <<A, B>>
                  ELSE merged_intervals = << <<A[1], Max(A[2], B[2])>> >>

\* Two adjoining intervals were merged into one.
C10_Witness ==
    /\ pc = "merge_returned"
    /\ Len(intervals) = 2
    /\ intervals[2][1] = intervals[1][2]
    /\ Len(merged_intervals) = 1

\* Every list that holds the elements of s in some order.
Orderings(s) ==
    LET n == Len(s)
        perms == { p \in [1..n -> 1..n] : \A i, j \in 1..n : i # j => p[i] # p[j] }
    IN  { [i \in 1..n |-> s[p[i]]] : p \in perms }

(* C11: merge_overlapping_intervals is idempotent (merging its result      *)
(* again returns the result unchanged), every ordering of the input list   *)
(* gives the same result, and the empty list gives the empty list.         *)
C11_MergeAlgebra ==
    pc = "merge_returned" =>
        /\ merge_overlapping_intervals(merged_intervals) = merged_intervals
        /\ \A x \in Orderings(intervals) : merge_overlapping_intervals(x) = merged_intervals
        /\ intervals = <<>> => merged_intervals = <<>>

\* Three intervals were merged into one, two of them with the same start
\* and different ends, so that orderings of the input differ after the sort.
C11_Witness ==
    /\ pc = "merge_returned"
    /\ Len(intervals) = 3
    /\ \E i, j \in DOMAIN intervals :
          i < j /\ intervals[i][1] = intervals[j][1] /\ intervals[i][2] > intervals[j][2]
    /\ Len(merged_intervals) = 1

----------------------------------------------------------------------------
(* The subtraction of occupied intervals from a window *)

(* C12: the parts the subtraction leaves of a window W are pairwise        *)
(* disjoint and cover exactly the times of W that no occupied interval     *)
(* covers; with no occupied interval the result is [W], with W itself      *)
(* occupied it is [], and an occupied interval outside W leaves [W].       *)
C12_ExactRemainder ==
    pc = "subtract_returned" =>
        /\ PairwiseDisjoint(fully_available)
        /\ \A t \in SubtractTimes :
              Covered(fully_available, t) <=>
                  (Covered(<<window>>, t) /\ ~Covered(window_occupied, t))
        /\ window_occupied = <<>> => fully_available = <<window>>
        /\ window_occupied = <<window>> => fully_available = <<>>
        /\ (\A i \in DOMAIN window_occupied : ~Overlaps(window, window_occupied[i]))
              => fully_available = <<window>>

----------------------------------------------------------------------------
(* calculate_task_score called on its own *)

(* C13: the deadline urgency calculate_task_score uses is 0 for a task     *)
(* without deadline, 2 for a deadline before the current time however far  *)
(* back, and 1 / (whole days until the deadline + 1) otherwise; a deadline  *)
(* equal to the current time is not overdue and has urgency 1.             *)
C13_DeadlineUrgency ==
    pc = "score_returned" =>
        LET deadline == scoring_task.deadline
            urgency == task_score.urgency
        IN  /\ urgency[2] > 0
            /\ deadline = None => urgency[1] = 0
            /\ (deadline # None /\ deadline[1] < now) => urgency[1] = 2 * urgency[2]
            /\ (deadline # None /\ deadline[1] >= now) =>
                  urgency[1] * (((deadline[1] - now) \div MinutesPerDay) + 1) = urgency[2]
            /\ deadline = <<now>> => urgency[1] = urgency[2]

\* A task whose deadline is the current time was scored with urgency 1.
C13_Witness ==
    /\ pc = "score_returned"
    /\ scoring_task.deadline = <<now>>
    /\ task_score.urgency = <<1, 1>>

\* A task two days overdue was scored with urgency 2.
C13_WitnessOverdue ==
    /\ pc = "score_returned"
    /\ scoring_task.deadline = <<now - 2 * MinutesPerDay>>
    /\ task_score.urgency = <<2, 1>>

(* C14: the score is the weighted sum                                      *)
(*   0.2 * duration / 480 + 0.4 * energy / 3 + 0.3 * impact                *)
(*   + 0.1 * deadline urgency                                              *)
(* for every task, overdue or not, with impact in 1..4.                    *)
C14_WeightedSum ==
    pc = "score_returned" =>
        LET urgency == task_score.urgency
            impact == impact_mapping(scoring_task.impact)
            energy == energy_required(scoring_task.energy_level)
            \* the first three terms, in units of 1 / ScoreUnit
            three == 2 * scoring_task.estimated_time * 3 + 4 * energy * 480
                         + 3 * impact * 480 * 3
            \* ... and all four, as a fraction over urgency[2]
            expected == <<three * urgency[2] + 1 * urgency[1] * 480 * 3, urgency[2]>>
        IN  /\ impact \in 1..4
            /\ ScoreEq(task_score.score, expected)

----------------------------------------------------------------------------
(* Writing the allocations to the calendar *)

\* The first reconciliation is over and task_events is still what it was
\* given.
Reconciled == round = 1 /\ pc \in {"done", "failed", "fetch_tasks"}

\* The calls of the first reconciliation sent for allocation a with op.
CallsFor(a, op) ==
    { i \in DOMAIN writes :
        /\ writes[i].round = 1
        /\ writes[i].op = op
        /\ writes[i].task_id = a.task_id
        /\ writes[i].start_time = a.start_time
        /\ writes[i].end_time = a.end_time }

\* What the claim expects for allocation a.
ExpectedCalls(a) ==
    IF a.task_id \in DOMAIN task_events
    THEN LET event == task_events[a.task_id]
         IN  IF event.start = a.start_time /\ event.end = a.end_time
             THEN CallsFor(a, "insert") = {} /\ CallsFor(a, "update") = {}
             ELSE /\ CallsFor(a, "insert") = {}
                  /\ Cardinality(CallsFor(a, "update")) = 1
                  /\ \A i \in CallsFor(a, "update") : writes[i].event_id = event.id
    ELSE Cardinality(CallsFor(a, "insert")) = 1 /\ CallsFor(a, "update") = {}

(* C15: for every freshly computed allocation the run sends nothing when   *)
(* the task id has a stored event with the same start and end, exactly one *)
(* update of that event when the stored event differs, and exactly one     *)
(* insert when the task id has no stored event.                            *)
C15_WritePerAllocation ==
    Reconciled =>
        \A k \in DOMAIN merged_scheduled_tasks : ExpectedCalls(merged_scheduled_tasks[k])

\* The task ids of the freshly computed allocations.
FreshTaskIds == { merged_scheduled_tasks[k].task_id : k \in DOMAIN merged_scheduled_tasks }

(* C16: no step removes or changes a stored event whose task id is not     *)
(* among the freshly computed allocations: the event stays in the calendar *)
(* with its id, start and end.                                             *)
C16_OtherEventsKept ==
    [][\A e \in calendar.events : e.task_id \notin FreshTaskIds => e \in calendar'.events]_vars

\* A stored event of a task with a fresh allocation was updated while the
\* calendar held an event of a task without one.
C16_Witness ==
    /\ Reconciled
    /\ \E i \in DOMAIN writes : writes[i].op = "update" /\ writes[i].ok
    /\ \E e \in calendar.events : e.task_id \notin FreshTaskIds

(* C17: when a reconciliation has written its allocations without a        *)
(* failure, the reconciliations of the same allocations that follow send   *)
(* no insert and no update, also for a task with several allocations.      *)
C17_SecondRunSilent ==
    failing = {} => \A i \in DOMAIN writes : writes[i].round = 1

\* The allocation at position k needs a call: its task has no stored event,
\* or one with another start or end.
NeedsCall(k) ==
    LET a == merged_scheduled_tasks[k]
    IN  \/ a.task_id \notin DOMAIN task_events
        \/ task_events[a.task_id].start # a.start_time
        \/ task_events[a.task_id].end # a.end_time

(* C20: a failing insert or update does not end the run, and the call of   *)
(* every other allocation that needs one is still attempted.               *)
C20_FailureIsPerTask ==
    Reconciled =>
        /\ raised = NotRaised
        /\ \A k \in DOMAIN merged_scheduled_tasks :
              NeedsCall(k) =>
                  \E i \in DOMAIN writes : writes[i].round = 1 /\ writes[i].index = k

----------------------------------------------------------------------------
(* Failures of the template sheet and of the calendar *)

(* C18: when the template sheet cannot be reached or has no rows the run   *)
(* ends with an error before a task is scored, placed or written to the    *)
(* calendar.                                                               *)
C18_EmptyTemplateAborts ==
    (~sheet.reachable \/ sheet.rows = <<>>) =>
        /\ pc \in {"fetch_profile", "failed"}
        /\ pc = "failed" => raised = "ValueError"
        /\ scored_tasks = <<>>
        /\ scheduled_tasks = <<>>
        /\ writes = <<>>

(* C19: when the calendar cannot be reached and the template is available  *)
(* the run is not ended: it goes on with no occupied interval.             *)
C19_CalendarFailureDegrades ==
    (~calendar.reachable /\ sheet.reachable) =>
        /\ pc # "failed"
        /\ raised = NotRaised
        /\ pc \notin {"fetch_profile", "fetch_calendar"} => occupied_slots = <<>>

----------------------------------------------------------------------------
\* The entries of scheduled_tasks that carry task id.
PartsOf(id) == { i \in DOMAIN scheduled_tasks : scheduled_tasks[i].task_id = id }

(* C21: a task that runs out of candidate slots (or has none) before its   *)
(* remaining time reaches zero does not end the run: when schedule_tasks   *)
(* returns nothing was raised, every task of the priority order has been   *)
(* processed and has its outcome printed, the parts placed for a task are  *)
(* in scheduled_tasks and in the occupied list, and the remaining time     *)
(* printed for it is its estimate less the parts placed.                   *)
C21_ExhaustedTaskContinues ==
    pc = "merge_scheduled" =>
        /\ raised = NotRaised
        /\ \A k \in DOMAIN scored_tasks :
               LET task == TaskAt(k)
               IN  /\ task.id \in DOMAIN report
                   /\ report[task.id].parts = Cardinality(PartsOf(task.id))
                   /\ report[task.id].remaining =
                          task.estimated_time - TotalFor(scheduled_tasks, task.id)
                   /\ report[task.id].no_timeslots => report[task.id].remaining > 0
                   /\ \A i \in PartsOf(task.id) :
                          <<scheduled_tasks[i].start_time, scheduled_tasks[i].end_time>>
                              \in Range(occupied_slots)

\* A task was placed in part only, and the task after it in the priority
\* order was processed.
C21_Witness ==
    /\ pc = "merge_scheduled"
    /\ \E k, l \in DOMAIN scored_tasks :
           /\ k < l
           /\ report[TaskAt(k).id].parts > 0
           /\ report[TaskAt(k).id].remaining > 0
           /\ TaskAt(l).id \in DOMAIN report

\* A task without candidate slots was passed over, and a task after it was
\* placed.
C21_WitnessAbsent ==
    /\ pc = "merge_scheduled"
    /\ \E k, l \in DOMAIN scored_tasks :
           /\ k < l
           /\ report[TaskAt(k).id].no_timeslots
           /\ report[TaskAt(l).id].parts > 0

----------------------------------------------------------------------------
\* The lookup fails: the cache file cannot be read, or there is no cache
\* younger than three hours and the request ends in an error.
LookupFails ==
    \/ weather_cache.exists /\ ~weather_cache.readable
    \/ /\ ~(weather_cache.exists /\ now < weather_cache.timestamp + CacheLifetime)
       /\ weather_api.outcome # "ok"

(* C22: when the hot-weather lookup fails (the request ends in an error,   *)
(* or the cached data is missing or cannot be read) nothing is raised, the *)
(* hot-weather signal is false and the template read is the standard one.  *)
C22_WeatherFailureIsFalse ==
    LookupFails =>
        /\ raised = NotRaised
        /\ hot_weather = FALSE
        /\ pc = "fetch_calendar" => sheet_id = standard_sheet_id

----------------------------------------------------------------------------
(* C23: when schedule_tasks turns to a task, the candidate slots it walks  *)
(* for that task are the ones get_available_timeslots gives for the        *)
(* occupied list as it stands at that moment, the parts placed for the     *)
(* tasks of higher priority included.                                      *)
C23_SlotsFromCurrentOccupied ==
    (pc = "schedule" /\ ti <= Len(scored_tasks) /\ scheduled_parts = <<>>
        /\ remaining_time = TaskAt(ti).estimated_time /\ di = 1 /\ si = 1) =>
        LET timeslots == get_available_timeslots(energy_profile, occupied_slots,
                                                 TaskAt(ti), now)
        IN  IF timeslots = <<>>
            THEN TaskAt(ti).id \notin DOMAIN available_timeslots
            ELSE /\ TaskAt(ti).id \in DOMAIN available_timeslots
                 /\ TaskSlots = timeslots

----------------------------------------------------------------------------
\* A slot the walk passes without placing anything: empty, or in conflict
\* with an occupied interval.
Unusable(slot_, occupied) ==
    slot_[2] - slot_[1] <= 0 \/ Conflicts(slot_[1], slot_[2], occupied)

\* The walk is at the earliest usable slot: the day entries are in
\* chronological order, and every slot of an earlier day entry and every
\* slot of this day with an earlier start is unusable by now.
AtEarliestUsable ==
    /\ \A d \in 1..(Len(TaskSlots) - 1) : TaskSlots[d][1] < TaskSlots[d + 1][1]
    /\ \A d \in 1..(di - 1) : \A k \in DOMAIN TaskSlots[d][2] :
           Unusable(TaskSlots[d][2][k], occupied_slots)
    /\ \A k \in DOMAIN TaskSlots[di][2] :
           TaskSlots[di][2][k][1] < SortedSlots[si][1]
               => Unusable(TaskSlots[di][2][k], occupied_slots)

\* One step of schedule_tasks at the slot the walk has reached.
C24_Step ==
    /\ AtSlot =>
           LET slot_ == SortedSlots[si]
               length == slot_[2] - slot_[1]
           IN  /\ AtEarliestUsable
               /\ ti' = ti
               /\ IF Unusable(slot_, occupied_slots)
                  THEN /\ UNCHANGED <<scheduled_parts, occupied_slots, remaining_time>>
                       /\ <<di', si'>> # <<di, si>>
                  ELSE IF length >= remaining_time
                  THEN /\ scheduled_parts' =
                              Append(scheduled_parts, <<slot_[1], slot_[1] + remaining_time>>)
                       /\ occupied_slots' =
                              Append(occupied_slots, <<slot_[1], slot_[1] + remaining_time>>)
                       /\ remaining_time' = 0
                  ELSE /\ scheduled_parts' = Append(scheduled_parts, slot_)
                       /\ occupied_slots' = Append(occupied_slots, slot_)
                       /\ remaining_time' = remaining_time - length
                       /\ <<di', si'>> # <<di, si>>
    /\ (pc = "schedule" /\ ti <= Len(scored_tasks) /\ remaining_time = 0) =>
           /\ ti' = ti + 1
           /\ UNCHANGED occupied_slots

(* C24: for each task schedule_tasks walks the day entries in              *)
(* chronological order and the slots of a day in ascending start order; at *)
(* a slot that is not in conflict, if the slot is at least as long as the  *)
(* remaining time it places [slot start, slot start + remaining), sets     *)
(* remaining to 0 and places nothing more for the task; otherwise it       *)
(* places the whole slot, reduces remaining by the slot's length and goes  *)
(* on with the next slot, which may be on a later date.                    *)
C24_AllocatorWalk == [][C24_Step]_vars

\* A task was split over two slots that the profile lists in descending
\* order, and is placed in full.
C24_Witness ==
    /\ pc = "schedule"
    /\ ti <= Len(scored_tasks)
    /\ Len(scheduled_parts) = 2
    /\ remaining_time = 0
    /\ TaskAt(ti).id \in DOMAIN available_timeslots
    /\ \E d \in DOMAIN TaskSlots : TaskSlots[d][2] # SortByStart(TaskSlots[d][2])

\* A task went on in a slot of a later date.
C24_WitnessLaterDate ==
    /\ pc = "schedule"
    /\ Len(scheduled_parts) = 2
    /\ DateOf(scheduled_parts[1][1]) < DateOf(scheduled_parts[2][1])

----------------------------------------------------------------------------
\* Part p went into Allocation m.
Inside(p, m) == m.start_time <= p.start_time /\ p.end_time <= m.end_time

\* What merge_scheduled_tasks made of the parts it was given.
C25_Step ==
    pc = "merge_scheduled" =>
        LET parts == Range(scheduled_tasks)
            allocations == Range(merged_scheduled_tasks')
        IN  /\ \A p \in parts : \E m \in allocations : Inside(p, m)
            /\ \A m \in allocations : \A p \in parts :
                   Inside(p, m) => /\ p.task_id = m.task_id
                                   /\ DateOf(p.start_time) = DateOf(m.start_time)
                                   /\ \/ p.start_time = m.start_time
                                      \/ \E q \in parts : Inside(q, m) /\ q.end_time = p.start_time
            /\ \A p, q \in parts :
                   (p.task_id = q.task_id /\ DateOf(p.start_time) = DateOf(q.start_time)
                        /\ p.end_time = q.start_time)
                       => \E m \in allocations : Inside(p, m) /\ Inside(q, m)

(* C25: merge_scheduled_tasks joins two parts into one Allocation exactly  *)
(* when they have the same task id, lie on the same date and the first     *)
(* ends where the next starts; a gap, a change of date or another task id  *)
(* keeps them apart, so an Allocation never holds parts of two task ids.   *)
C25_MergeByTaskId == [][C25_Step]_vars

----------------------------------------------------------------------------
\* The ordinal of an energy level: low < medium < high.
LevelOf(level) == CASE level = "low" -> 1 [] level = "medium" -> 2 [] level = "high" -> 3

\* Window w can serve the task: its level is at least the task's, its scope
\* is the task's, it has not ended and it starts before the task's deadline
\* (if the task has one).
Qualifies(w, task, current_time) ==
    /\ LevelOf(w.energy_level) >= LevelOf(task.energy_level)
    /\ w.task_type = task.task_type
    /\ w.time_range[2] > current_time
    /\ task.deadline # None => w.time_range[1] < task.deadline[1]

\* The candidate slots of the task for a date, as available_timeslots has
\* them (none when the task or the date is absent).
SlotsOn(task, day) ==
    IF task.id \in DOMAIN available_timeslots
    THEN UNION { Range(available_timeslots[task.id][d][2]) :
                    d \in { e \in DOMAIN available_timeslots[task.id] :
                              available_timeslots[task.id][e][1] = day } }
    ELSE {}

Within(s, w) == w.time_range[1] <= s[1] /\ s[2] <= w.time_range[2]

(* C26: every candidate slot get_available_timeslots offers a task lies in *)
(* a window whose energy level is at least the task's requirement, whose   *)
(* scope is the task's, which has not ended before the current time and    *)
(* which starts before the task's deadline; and a task without a deadline  *)
(* is offered a slot from every such window of the horizon that is not     *)
(* wholly covered by an occupied interval.                                 *)
C26_SlotFilters ==
    pc = "timeslots" =>
        \A k \in 1..(gi - 1) :
            LET task == TaskAt(k)
            IN  \A day \in DOMAIN energy_profile :
                    LET windows == Range(energy_profile[day])
                    IN  /\ \A s \in SlotsOn(task, day) :
                               \E w \in windows : Within(s, w) /\ Qualifies(w, task, now)
                        /\ task.deadline = None =>
                               \A w \in windows :
                                   (/\ Qualifies(w, task, now)
                                    /\ ~\E o \in Range(occupied_slots) :
                                           o[1] <= w.time_range[1] /\ w.time_range[2] <= o[2])
                                       => \E s \in SlotsOn(task, day) : Within(s, w)

\* A task with a deadline got slots while a window of its scope and level
\* starts after the deadline, a window of today had ended, and a window of
\* another scope or a lower level was in the profile.
C26_Witness ==
    /\ pc = "timeslots"
    /\ \E k \in 1..(gi - 1) :
           LET task == TaskAt(k)
               windows == UNION { Range(energy_profile[day]) : day \in DOMAIN energy_profile }
           IN  /\ task.deadline # None
               /\ task.id \in DOMAIN available_timeslots
               /\ \E w \in windows :
                      /\ w.task_type = task.task_type
                      /\ LevelOf(w.energy_level) >= LevelOf(task.energy_level)
                      /\ w.time_range[1] >= task.deadline[1]
               /\ \E w \in windows : w.time_range[2] <= now
               /\ \E w \in windows :
                      \/ w.task_type # task.task_type
                      \/ LevelOf(w.energy_level) < LevelOf(task.energy_level)

\* A task without a deadline got slots on the last matching date of the
\* horizon.
C26_WitnessNoDeadline ==
    /\ pc = "timeslots"
    /\ \E k \in 1..(gi - 1) :
           /\ TaskAt(k).deadline = None
           /\ \E day \in (HorizonDays - 7)..(HorizonDays - 1) : SlotsOn(TaskAt(k), day) # {}

----------------------------------------------------------------------------
\* The windows of the returned profile, under all its keys.
ProfileWindows == UNION { Range(energy_profile[key]) : key \in DOMAIN energy_profile }

\* Some window of the profile has this range and the tag of the row: its
\* scope and its energy level (the two files draw the levels differently).
HasWindow(from, to, row) ==
    \E w \in ProfileWindows :
        /\ w.time_range = <<from, to>>
        /\ w.task_type = row.task_type
        /\ w.energy_level = IF pc = "profile_returned"
                            THEN convert_energy_level(row.energy)
                            ELSE convert_energy_level_V4(row.energy)

(* C27: the profile returned for a template has start < end in every       *)
(* window, and for an overnight row (end <= start, e.g. 23:00 - 01:00) on  *)
(* the first date it applies to it has one window from the start to        *)
(* midnight and, if the end is after midnight, one from midnight to the    *)
(* end on the next day, both with the scope and energy level of the row.   *)
C27_OvernightSplit ==
    pc \in {"profile_returned", "profile_V4_returned"} =>
        /\ \A w \in ProfileWindows : w.time_range[1] < w.time_range[2]
        /\ \A k \in DOMAIN sheet.rows :
               LET row == sheet.rows[k]
                   midnight == (row.day_name + 1) * MinutesPerDay
               IN  row.end_time <= row.start_time =>
                       /\ HasWindow(row.day_name * MinutesPerDay + row.start_time,
                                    midnight, row)
                       /\ row.end_time > 0 =>
                              HasWindow(midnight, midnight + row.end_time, row)

----------------------------------------------------------------------------
(* C28: every Allocation of the run starts at or after the run's current   *)
(* time and, when its task has a deadline, ends at or before the deadline. *)
C28_WithinNowAndDeadline ==
    pc = "manage_calendar" =>
        \A k \in DOMAIN merged_scheduled_tasks :
            LET allocation == merged_scheduled_tasks[k]
                task == parsed_tasks[allocation.task_id]
            IN  /\ allocation.start_time >= now
                /\ task.deadline # None => allocation.end_time <= task.deadline[1]

----------------------------------------------------------------------------
(* C29: the occupied list fetch_calendar_events returns holds the (start,  *)
(* end) of every fetched event that has a valid start and end and is not a *)
(* task placed by the scheduler, whatever its title, and of no task placed *)
(* by the scheduler.                                                       *)
C29_OccupiedIsEveryOtherEvent ==
    pc = "calendar_fetched" =>
        \A e \in calendar.events :
            e.parsable =>
                (<<e.start, e.end>> \in Range(occupied_slots)) = ~e.by_scheduler

----------------------------------------------------------------------------
(* C30: in assistantV6 no allocation that schedule_tasks returns overlaps  *)
(* an event that fetch_calendar_events returned, whether its candidate     *)
(* slot was a whole window or was built from 15-minute chunks.             *)
C30_NoOverlapWithEvents ==
    pc = "V6_scheduled" =>
        \A k \in DOMAIN scheduled_tasks : \A e \in DOMAIN calendar_events :
            ~Overlaps(<<scheduled_tasks[k].start_time, scheduled_tasks[k].end_time>>,
                      <<calendar_events[e].start, calendar_events[e].end>>)

====
